---- MODULE Spec2Model ----
(***************************************************************************)
(* The sliding-window rate limiter of src/src/lib/ratelimit.ts             *)
(* (class RateLimiter) as a state machine.  Time is in milliseconds; every *)
(* public method and the interval callback is one atomic action, as the    *)
(* single-threaded event loop runs each of them to completion.             *)
(***************************************************************************)
EXTENDS Integers, Sequences, FiniteSets, Bags, TLC

\* ------------------------------------------------------------------ bounds

\* Number of times the clock advances in a run.
MaxTicks == 2
\* Number of check calls counted in one burst (same key, same instant).
MaxBurstCalls == 3
\* Number of requests the route handlers serve in a run, after the warm-up.
MaxServed == 2
\* Length of the longest files list given to sendTelegramNotification.
MaxFiles == 2

\* maxRequests of the constructed limiter.
MaxRequestsChoices == {1, 2}
\* The identifiers callers pass (client addresses).
Identifiers == {"ip1", "ip2"}
\* windowMs of the constructed limiter: createGlobalRateLimiter (1000) and
\* createDefaultRateLimiter / createStrictRateLimiter (60 * 1000).
WindowChoices == {1000, 60000}
\* Amounts by which Date.now() advances between two calls.
TickChoices == {500, 59500}

\* ------------------------------------------------------- program constants

\* setInterval(() => this.cleanup(), 60000)
CleanupIntervalMs == 60000
\* Math.ceil((...) / 1000): milliseconds per second
MsPerSecond == 1000

VARIABLES
    config,          \* this.config: [maxRequests, windowMs, perIP]; its message is a
                     \* string no method of the limiter reads
    store,           \* this.store: Map<string, RateLimitEntry>, a function on its keys
    timerActive,     \* this.cleanupInterval is armed (not yet clearInterval'ed)
    cleanupDue,      \* the time from which the armed interval may fire next
    now,             \* Date.now()
    ticks,           \* how often the clock has advanced
    last,            \* the call made last, if nothing happened since: [op, id, result]
    admitted,        \* history: per key, the times of the checks admitted since the
                     \* key was last reset or the limiter destroyed, those that
                     \* have left every future window dropped
    full,            \* history: per key, the latest instant at which maxRequests
                     \* checks were admitted (since reset or destroy): {} or {t}
    burst,           \* history: per key, the calls and admissions of a run of checks
                     \* made at one instant from a key without entry
    twin,            \* a second limiter, constructed with the same config at the
                     \* moment the first is destroyed and given the same calls:
                     \* [live, store, cleanupDue, last]
    route,           \* a process serving the route handlers: the module's
                     \* ipRateLimiter and globalRateLimiter, the limiters
                     \* constructed so far, and the response given last
    client,          \* a call of sendTelegramNotification: what it was given, the
                     \* calls it made on its TelegramClient, and where the
                     \* makeRequest of its current call stands
    promised,        \* history: per key, the earliest instant now + retryAfter *
                     \* 1000 announced by a denial since the key's last admission,
                     \* and whether the check just made was admitted from it on
    racing,          \* callers of check() whose statements are scheduled one by
                     \* one: where each stands, and the most that were under way
                     \* together
    hook             \* a component using useTelegramNotify: its config, the
                     \* state loading / error / success, the send calls under
                     \* way and how the last one settled

\* The limiter under study.
limiterVars == <<config, store, timerActive, cleanupDue, now, ticks, last, admitted,
                 full, burst>>

vars == <<config, store, timerActive, cleanupDue, now, ticks, last, admitted, full,
          burst, twin, route, client, promised, racing, hook>>

\* ------------------------------------------------------------ pure helpers

\* Faulty variant of KeyOf: every call lands on the shared key.
KeyOfAlwaysGlobal(identifier) == "global"

\* Faulty variant of KeyOf: perIP is ignored, every identifier is its own key.
KeyOfAlwaysIdentifier(identifier) == identifier

\* const key = this.config.perIP ? identifier : 'global';
KeyOf(identifier) == IF config.perIP THEN identifier ELSE "global"

\* Faulty variant of InWindow: a timestamp at now - windowMs still counts.
InWindowInclusive(timestamp, t) == timestamp >= t - config.windowMs

\* (timestamp) => timestamp > now - this.config.windowMs
InWindow(timestamp, t) == timestamp > t - config.windowMs

\* Faulty variant of FilterRequests: nothing is ever dropped.
FilterRequestsKeepsAll(requests, t) == requests

\* Faulty variant of FilterRequests: the oldest timestamp is never dropped.
FilterRequestsKeepsOldest(requests, t) ==
    IF requests = <<>> THEN <<>>
    ELSE <<Head(requests)>> \o SelectSeq(Tail(requests), LAMBDA ts : InWindow(ts, t))

\* entry.requests.filter(...)
FilterRequests(requests, t) == SelectSeq(requests, LAMBDA ts : InWindow(ts, t))

\* Math.ceil(x / d) on integers (\div rounds down)
CeilDiv(x, d) == -((-x) \div d)

\* Faulty variant of LimitExceeded: off by one (> for >=).
LimitExceededOffByOne(requests) == Len(requests) > config.maxRequests

\* entry.requests.length >= this.config.maxRequests
LimitExceeded(requests) == Len(requests) >= config.maxRequests

\* Faulty variant of RetryAfter: rounded down, and not replaced when it is 0.
RetryAfterFloor(oldestRequest, t) ==
    (oldestRequest + config.windowMs - t) \div MsPerSecond

\* retryAfter of a denial: Math.ceil((oldestRequest + windowMs - now) / 1000),
\* replaced by 1 when it is not positive
RetryAfter(oldestRequest, t) ==
    LET retryAfter == CeilDiv(oldestRequest + config.windowMs - t, MsPerSecond)
    IN  IF retryAfter > 0 THEN retryAfter ELSE 1

\* Faulty variant of EntryOrNew: the stored entry's resetAt is refreshed.
EntryOrNewRefreshed(key, t) ==
    IF key \in DOMAIN store
    THEN [store[key] EXCEPT !.resetAt = t + config.windowMs]
    ELSE [count |-> 0, resetAt |-> t + config.windowMs, requests |-> <<>>]

\* The entry check() works on: the stored one, or a new one put into the store.
EntryOrNew(key, t) ==
    IF key \in DOMAIN store
    THEN store[key]
    ELSE [count |-> 0, resetAt |-> t + config.windowMs, requests |-> <<>>]

\* A map with key set to value (Map.set).
MapSet(map, key, value) ==
    [k \in DOMAIN map \cup {key} |-> IF k = key THEN value ELSE map[k]]

\* A map without key (Map.delete).
MapDelete(map, key) == [k \in DOMAIN map \ {key} |-> map[k]]

\* Faulty variant of DeniedEntry: the denied request is recorded too.
DeniedEntryRecorded(entry, recent, t) == [entry EXCEPT !.requests = Append(recent, t)]

\* The entry a denied check leaves in the store: the filtered requests, nothing pushed.
DeniedEntry(entry, recent, t) == [entry EXCEPT !.requests = recent]

\* The entry an admitted check leaves: now pushed, count incremented.
AllowedEntry(entry, recent, t) ==
    [entry EXCEPT !.requests = Append(recent, t), !.count = entry.count + 1]

\* Faulty variant of CheckOutcome: exhaustion raised as an error, not returned.
CheckOutcomeThrows(identifier, t) ==
    LET key    == KeyOf(identifier)
        entry  == EntryOrNew(key, t)
        recent == FilterRequests(entry.requests, t)
    IN  IF LimitExceeded(recent)
        THEN [store  |-> MapSet(store, key, DeniedEntry(entry, recent, t)),
              result |-> [thrown |-> "Too many requests, please try again later."]]
        ELSE [store  |-> MapSet(store, key, AllowedEntry(entry, recent, t)),
              result |-> [allowed |-> TRUE]]

\* check(identifier): the store after the call and the value returned.
CheckOutcome(identifier, t) ==
    LET key    == KeyOf(identifier)
        entry  == EntryOrNew(key, t)
        recent == FilterRequests(entry.requests, t)
    IN  IF LimitExceeded(recent)
        THEN [store  |-> MapSet(store, key, DeniedEntry(entry, recent, t)),
              result |-> [allowed |-> FALSE,
                          retryAfter |-> RetryAfter(recent[1], t)]]
        ELSE [store  |-> MapSet(store, key, AllowedEntry(entry, recent, t)),
              result |-> [allowed |-> TRUE]]

\* Faulty variant of ResetOutcome: the entry is left in place.
ResetOutcomeKeeps(identifier) == store

\* Faulty variant of ResetOutcome: every key is reset.
ResetOutcomeClearsAll(identifier) == [k \in {} |-> 0]

\* reset(identifier): the store after the call.
ResetOutcome(identifier) == MapDelete(store, KeyOf(identifier))

\* Faulty variant of UsageOfMissing: resetAt without the window added.
UsageOfMissingNoWindow(t) ==
    [count |-> 0, limit |-> config.maxRequests, resetAt |-> t]

\* getUsage(identifier) when the key has no entry.
UsageOfMissing(t) ==
    [count |-> 0, limit |-> config.maxRequests, resetAt |-> t + config.windowMs]

\* Faulty variant of UsageOfEntry: the lifetime counter instead of the window.
UsageOfEntryLifetimeCount(entry, t) ==
    [count   |-> entry.count,
     limit   |-> config.maxRequests,
     resetAt |-> entry.resetAt]

\* getUsage(identifier) when the key has an entry.
UsageOfEntry(entry, t) ==
    [count   |-> Len(FilterRequests(entry.requests, t)),
     limit   |-> config.maxRequests,
     resetAt |-> entry.resetAt]

\* getUsage(identifier): the value returned.
UsageOutcome(identifier, t) ==
    LET key == KeyOf(identifier)
    IN  IF key \notin DOMAIN store
        THEN UsageOfMissing(t)
        ELSE UsageOfEntry(store[key], t)

\* Faulty variant of CleanupOutcome: every entry is deleted, expired or not.
CleanupOutcomeDeletesAll(t) == [k \in {} |-> 0]

\* Faulty variant of CleanupOutcome: entries are filtered, none is deleted.
CleanupOutcomeKeepsEmpty(t) ==
    [k \in DOMAIN store |->
        [store[k] EXCEPT !.requests = FilterRequests(store[k].requests, t)]]

\* cleanup(): every entry filtered, the entries left empty deleted.
CleanupOutcome(t) ==
    LET kept == {k \in DOMAIN store : Len(FilterRequests(store[k].requests, t)) # 0}
    IN  [k \in kept |->
            [store[k] EXCEPT !.requests = FilterRequests(store[k].requests, t)]]

\* Faulty variant of DestroyOutcome: the store is not cleared.
DestroyOutcomeKeepsStore == store

\* destroy(): this.store.clear()
DestroyOutcome == [k \in {} |-> 0]

\* ------------------------------------------- the methods, on any instance
\* The same methods for a limiter given as a value: its config cfg and its
\* store st.  A process holds several limiters; these apply to each of them.

\* const key = this.config.perIP ? identifier : 'global';
RateLimiterKey(cfg, identifier) == IF cfg.perIP THEN identifier ELSE "global"

\* requests.filter((timestamp) => timestamp > now - this.config.windowMs)
RateLimiterFilter(cfg, requests, t) ==
    SelectSeq(requests, LAMBDA timestamp : timestamp > t - cfg.windowMs)

\* check(identifier): the store after the call and the value returned.
RateLimiterCheck(cfg, st, identifier, t) ==
    LET key    == RateLimiterKey(cfg, identifier)
        entry  == IF key \in DOMAIN st
                  THEN st[key]
                  ELSE [count |-> 0, resetAt |-> t + cfg.windowMs, requests |-> <<>>]
        recent == RateLimiterFilter(cfg, entry.requests, t)
        retryAfter == CeilDiv(recent[1] + cfg.windowMs - t, MsPerSecond)
    IN  IF Len(recent) >= cfg.maxRequests
        THEN [store  |-> MapSet(st, key, [entry EXCEPT !.requests = recent]),
              result |-> [allowed |-> FALSE,
                          retryAfter |-> IF retryAfter > 0 THEN retryAfter ELSE 1]]
        ELSE [store  |-> MapSet(st, key, [entry EXCEPT !.requests = Append(recent, t),
                                                       !.count = entry.count + 1]),
              result |-> [allowed |-> TRUE]]

\* reset(identifier): the store after the call.
RateLimiterReset(cfg, st, identifier) == MapDelete(st, RateLimiterKey(cfg, identifier))

\* getUsage(identifier): the value returned.
RateLimiterGetUsage(cfg, st, identifier, t) ==
    LET key == RateLimiterKey(cfg, identifier)
    IN  IF key \notin DOMAIN st
        THEN [count |-> 0, limit |-> cfg.maxRequests, resetAt |-> t + cfg.windowMs]
        ELSE [count   |-> Len(RateLimiterFilter(cfg, st[key].requests, t)),
              limit   |-> cfg.maxRequests,
              resetAt |-> st[key].resetAt]

\* cleanup(): the store after the pass.
RateLimiterCleanup(cfg, st, t) ==
    LET kept == {k \in DOMAIN st : Len(RateLimiterFilter(cfg, st[k].requests, t)) # 0}
    IN  [k \in kept |->
            [st[k] EXCEPT !.requests = RateLimiterFilter(cfg, st[k].requests, t)]]

\* On the limiter of the variables config and store, the methods above are the
\* operators CheckOutcome, ResetOutcome, UsageOutcome and CleanupOutcome.
InstanceAgreement ==
    /\ RateLimiterCleanup(config, store, now) = CleanupOutcome(now)
    /\ \A id \in Identifiers \cup {""} :
          /\ RateLimiterCheck(config, store, id, now) = CheckOutcome(id, now)
          /\ RateLimiterReset(config, store, id) = ResetOutcome(id)
          /\ RateLimiterGetUsage(config, store, id, now) = UsageOutcome(id, now)

\* -------------------------------------------------------------- history

\* The keys a store can hold.
Keys == Identifiers \cup {"global"}

\* The key the specification gives a call: the identifier under per-key limiting,
\* the one shared key otherwise.
SpecKey(identifier) == IF config.perIP THEN identifier ELSE "global"

NoBurst == [active |-> FALSE]

\* A burst begins with a check on a key that has no entry ("fresh"), or with the
\* reset of a key that is exhausted ("reset").
StartedBurst(origin) ==
    [active |-> TRUE, calls |-> 0, admits |-> 0, origin |-> origin]

CountedBurst(b, allowed) ==
    [b EXCEPT !.calls = b.calls + 1,
              !.admits = b.admits + (IF allowed THEN 1 ELSE 0)]

\* An admission: when, and under which identifier.
Admission(t, identifier) == [t |-> t, id |-> identifier]

\* How many admissions of log were made at t.
CountAt(log, t) == Len(SelectSeq(log, LAMBDA a : a.t = t))

\* How many admissions of log lie in the window (t - windowMs, t].
CountInWindow(log, t) ==
    Len(SelectSeq(log, LAMBDA a : t - config.windowMs < a.t /\ a.t <= t))

\* The admissions of log that can lie in a window ending at t or later.
StillCounted(log, t) == SelectSeq(log, LAMBDA a : t - config.windowMs < a.t)

\* The timestamps of requests a window ending at t counts.
NonExpired(requests, t) == SelectSeq(requests, LAMBDA ts : t - config.windowMs < ts)

\* full[key] after a check admitted at t, log being the key's admissions with it:
\* {t} when that made maxRequests admissions at t, unchanged otherwise.
FullAfterAdmit(f, log, t) ==
    IF CountAt(log, t) >= config.maxRequests THEN {t} ELSE f

Min(a, b) == IF a <= b THEN a ELSE b

\* ------------------------------------------------------------- the machine

\* What a method without return value returns.
Void == [void |-> TRUE]
\* No call of a public method was the last thing to happen.
NoCall == [op |-> "none", id |-> "", result |-> Void]

\* No second limiter has been constructed.
NoTwin == [live |-> FALSE]
\* No process serves route handlers.
NoRoute == [serving |-> FALSE]
\* sendTelegramNotification has not been called.
NoClient == [pc |-> "idle"]
\* No denial of the key is on record.
NoDenial == [due |-> {}, redeemed |-> FALSE]
NoPromise == [k \in Keys |-> NoDenial]
\* No check() is scheduled statement by statement.
NoRacing == [racing |-> FALSE]
\* No component uses useTelegramNotify.
NoHook == [mounted |-> FALSE]

\* new RateLimiter(config): an empty store and the cleanup interval armed
Init ==
    /\ config \in [maxRequests : MaxRequestsChoices,
                   windowMs : WindowChoices,
                   perIP : BOOLEAN]
    /\ store = [k \in {} |-> 0]
    /\ timerActive = TRUE
    /\ now = 0
    /\ cleanupDue = CleanupIntervalMs
    /\ ticks = 0
    /\ last = NoCall
    /\ admitted = [k \in Keys |-> <<>>]
    /\ full = [k \in Keys |-> {}]
    /\ burst = [k \in Keys |-> NoBurst]
    /\ twin = NoTwin
    /\ client = NoClient
    /\ promised = NoPromise
    /\ racing = NoRacing
    /\ hook = NoHook
    /\ route = NoRoute

Check(identifier) ==
    LET key == SpecKey(identifier)
        out == CheckOutcome(identifier, now)
        b   == IF burst[key].active THEN burst[key]
               ELSE IF key \notin DOMAIN store THEN StartedBurst("fresh")
               ELSE NoBurst
    IN  /\ b.active => b.calls < MaxBurstCalls
        /\ store' = out.store
        /\ last' = [op |-> "check", id |-> identifier, result |-> out.result]
        /\ admitted' = IF out.result.allowed
                       THEN [admitted EXCEPT ![key] = Append(@, Admission(now, identifier))]
                       ELSE admitted
        /\ full' = IF out.result.allowed
                   THEN [full EXCEPT ![key] =
                            FullAfterAdmit(@, admitted'[key], now)]
                   ELSE full
        /\ burst' = IF b.active
                    THEN [burst EXCEPT ![key] = CountedBurst(b, out.result.allowed)]
                    ELSE burst
        /\ UNCHANGED <<config, timerActive, cleanupDue, now, ticks>>

Reset(identifier) ==
    LET key == SpecKey(identifier)
    IN  /\ store' = ResetOutcome(identifier)
        /\ last' = [op |-> "reset", id |-> identifier, result |-> Void]
        /\ admitted' = [admitted EXCEPT ![key] = <<>>]
        /\ full' = [full EXCEPT ![key] = {}]
        /\ burst' = [burst EXCEPT ![key] =
                        IF CountInWindow(admitted[key], now) >= config.maxRequests
                        THEN StartedBurst("reset") ELSE NoBurst]
        /\ UNCHANGED <<config, timerActive, cleanupDue, now, ticks>>

\* Faulty variant of GetUsage: the entry is created when missing and the
\* filtered requests are written back, as check() does.
GetUsageWritesBack(identifier) ==
    LET key   == KeyOf(identifier)
        entry == EntryOrNew(key, now)
    IN  /\ last' = [op |-> "getUsage", id |-> identifier,
                    result |-> UsageOutcome(identifier, now)]
        /\ store' = MapSet(store, key,
                       [entry EXCEPT !.requests = FilterRequests(entry.requests, now)])
        /\ UNCHANGED <<config, timerActive, cleanupDue, now, ticks, admitted, full,
                       burst>>

\* getUsage(identifier): nothing but the value returned changes.
GetUsage(identifier) ==
    /\ last' = [op |-> "getUsage", id |-> identifier,
                result |-> UsageOutcome(identifier, now)]
    /\ UNCHANGED <<config, store, timerActive, cleanupDue, now, ticks, admitted, full,
                   burst>>

\* The interval callback: runs cleanup() and the interval re-arms.
Cleanup ==
    /\ timerActive
    /\ now >= cleanupDue
    /\ store' = CleanupOutcome(now)
    /\ cleanupDue' = now + CleanupIntervalMs
    /\ last' = NoCall
    /\ UNCHANGED <<config, timerActive, now, ticks, admitted, full, burst>>

\* Faulty variant of Destroy: the store is cleared, the interval left armed.
DestroyKeepsTimer ==
    /\ store' = DestroyOutcome
    /\ last' = NoCall
    /\ admitted' = [k \in Keys |-> <<>>]
    /\ full' = [k \in Keys |-> {}]
    /\ burst' = [k \in Keys |-> NoBurst]
    /\ UNCHANGED <<config, timerActive, cleanupDue, now, ticks>>

\* destroy(): clearInterval and store.clear()
Destroy ==
    /\ timerActive' = FALSE
    /\ store' = DestroyOutcome
    /\ last' = NoCall
    /\ admitted' = [k \in Keys |-> <<>>]
    /\ full' = [k \in Keys |-> {}]
    /\ burst' = [k \in Keys |-> NoBurst]
    /\ UNCHANGED <<config, cleanupDue, now, ticks>>

\* Time passes between two calls.
Tick ==
    /\ ticks < MaxTicks
    /\ \E d \in TickChoices : now' = now + d
    /\ ticks' = ticks + 1
    /\ last' = NoCall
    /\ burst' = [k \in Keys |-> NoBurst]
    /\ admitted' = [k \in Keys |-> StillCounted(admitted[k], now')]
    /\ UNCHANGED <<config, store, timerActive, cleanupDue, full>>

\* One limiter, alone.
Next ==
    \/ \E identifier \in Identifiers : Check(identifier) /\ UNCHANGED <<twin, route, client, promised, racing, hook>>
    \/ \E identifier \in Identifiers : Reset(identifier) /\ UNCHANGED <<twin, route, client, promised, racing, hook>>
    \/ \E identifier \in Identifiers : GetUsage(identifier) /\ UNCHANGED <<twin, route, client, promised, racing, hook>>
    \/ Cleanup /\ UNCHANGED <<twin, route, client, promised, racing, hook>>
    \/ Destroy /\ UNCHANGED <<twin, route, client, promised, racing, hook>>
    \/ Tick /\ UNCHANGED <<twin, route, client, promised, racing, hook>>

Spec == Init /\ [][Next]_vars

\* ------------------------------------------------- denials and their retryAfter
\* The limiter alone, with a record of what its denials announced.  The calls
\* are those that write the store or read it for a decision: check, reset, the
\* interval callback and destroy; getUsage writes nothing (GetUsage above).

\* The instant a denial at t with retryAfter announces for the next attempt.
RetryAt(t, retryAfter) == t + retryAfter * MsPerSecond

\* The record of a key after a check at t returned result.
Recorded(denial, result, t) ==
    IF result.allowed
    THEN [due |-> {}, redeemed |-> \E due \in denial.due : t >= due]
    ELSE LET announced == RetryAt(t, result.retryAfter)
         IN  [due |-> IF \E due \in denial.due : due <= announced
                      THEN denial.due ELSE {announced},
              redeemed |-> FALSE]

CheckRecorded(identifier) ==
    /\ Check(identifier)
    /\ promised' = [promised EXCEPT ![SpecKey(identifier)] =
                        Recorded(@, last'.result, now)]
    /\ UNCHANGED <<twin, route, client, racing, hook>>

TickRecorded ==
    /\ Tick
    /\ promised' = [k \in Keys |-> [promised[k] EXCEPT !.redeemed = FALSE]]
    /\ UNCHANGED <<twin, route, client, racing, hook>>

NextRetry ==
    \/ \E identifier \in Identifiers : CheckRecorded(identifier)
    \/ \E identifier \in Identifiers :
          Reset(identifier) /\ UNCHANGED <<twin, route, client, promised, racing, hook>>
    \/ Cleanup /\ UNCHANGED <<twin, route, client, promised, racing, hook>>
    \/ Destroy /\ UNCHANGED <<twin, route, client, promised, racing, hook>>
    \/ TickRecorded

SpecRetry == Init /\ [][NextRetry]_vars

\* ------------------------------------------------- the interval, never cleared
\* The limiter alone and never destroyed: the interval armed by the constructor
\* stays armed, and a callback that is due is eventually run by the event loop.
\* The calls are those that write the store: check and reset.

CleanupFires == Cleanup /\ UNCHANGED <<twin, route, client, promised, racing, hook>>

NextTimer ==
    \/ \E identifier \in Identifiers :
          Check(identifier) /\ UNCHANGED <<twin, route, client, promised, racing, hook>>
    \/ \E identifier \in Identifiers :
          Reset(identifier) /\ UNCHANGED <<twin, route, client, promised, racing, hook>>
    \/ CleanupFires
    \/ Tick /\ UNCHANGED <<twin, route, client, promised, racing, hook>>

SpecTimer == Init /\ [][NextTimer]_vars /\ WF_vars(CleanupFires)

\* ------------------------------------------ a destroyed limiter and a new one
\* The limiter is destroyed and, at that moment, a second limiter is constructed
\* with the same config.  From then on both are given the same calls at the same
\* times.  The second limiter's interval fires on time: its cleanup pass runs at
\* the instant it is due, before any call made at that instant or later.

\* new RateLimiter(config) at time t.
FreshTwin(t) ==
    [live |-> TRUE, store |-> [k \in {} |-> 0],
     cleanupDue |-> t + CleanupIntervalMs, last |-> NoCall]

\* A check before the limiter is destroyed.
CheckBeforeDestroy(identifier) ==
    /\ ~twin.live
    /\ Check(identifier)
    /\ UNCHANGED <<twin, route, client, promised, racing, hook>>

\* destroy(), and the second limiter constructed.
DestroyAndConstruct ==
    /\ Destroy
    /\ twin' = FreshTwin(now)
    /\ UNCHANGED <<route, client, promised, racing, hook>>

\* check(identifier) on both limiters.
BothCheck(identifier) ==
    /\ twin.live
    /\ now < twin.cleanupDue
    /\ Check(identifier)
    /\ LET out == RateLimiterCheck(config, twin.store, identifier, now)
       IN  twin' = [twin EXCEPT !.store = out.store,
                                !.last = [op |-> "check", id |-> identifier,
                                          result |-> out.result]]
    /\ UNCHANGED <<route, client, promised, racing, hook>>

\* reset(identifier) on both limiters.
BothReset(identifier) ==
    /\ twin.live
    /\ now < twin.cleanupDue
    /\ Reset(identifier)
    /\ twin' = [twin EXCEPT !.store = RateLimiterReset(config, twin.store, identifier),
                            !.last = [op |-> "reset", id |-> identifier,
                                      result |-> Void]]
    /\ UNCHANGED <<route, client, promised, racing, hook>>

\* getUsage(identifier) on both limiters.
BothGetUsage(identifier) ==
    /\ twin.live
    /\ now < twin.cleanupDue
    /\ GetUsage(identifier)
    /\ twin' = [twin EXCEPT !.last =
                   [op |-> "getUsage", id |-> identifier,
                    result |-> RateLimiterGetUsage(config, twin.store, identifier, now)]]
    /\ UNCHANGED <<route, client, promised, racing, hook>>

\* The second limiter's interval callback.
TwinCleanup ==
    /\ twin.live
    /\ now >= twin.cleanupDue
    /\ twin' = [twin EXCEPT !.store = RateLimiterCleanup(config, twin.store, now),
                            !.cleanupDue = now + CleanupIntervalMs]
    /\ UNCHANGED <<limiterVars, route, client, promised, racing, hook>>

\* Time passes, up to the next pass of the second limiter's interval at most.
BothTick ==
    /\ twin.live
    /\ Tick
    /\ now' <= twin.cleanupDue
    /\ twin' = [twin EXCEPT !.last = NoCall]
    /\ UNCHANGED <<route, client, promised, racing, hook>>

NextDestroyed ==
    \/ \E identifier \in Identifiers : CheckBeforeDestroy(identifier)
    \/ DestroyAndConstruct
    \/ \E identifier \in Identifiers : BothCheck(identifier)
    \/ \E identifier \in Identifiers : BothReset(identifier)
    \/ \E identifier \in Identifiers : BothGetUsage(identifier)
    \/ TwinCleanup
    \/ BothTick

SpecDestroyed == Init /\ [][NextDestroyed]_vars

\* ------------------------------------------- a limiter whose interval never fires
\* Two limiters constructed together with the same config and given the same
\* calls at the same times.  The interval callback of the first fires at any
\* point from when it is due; that of the second never runs.

InitIdleInterval ==
    /\ config \in [maxRequests : MaxRequestsChoices,
                   windowMs : WindowChoices,
                   perIP : BOOLEAN]
    /\ store = [k \in {} |-> 0]
    /\ timerActive = TRUE
    /\ now = 0
    /\ cleanupDue = CleanupIntervalMs
    /\ ticks = 0
    /\ last = NoCall
    /\ admitted = [k \in Keys |-> <<>>]
    /\ full = [k \in Keys |-> {}]
    /\ burst = [k \in Keys |-> NoBurst]
    /\ twin = FreshTwin(0)
    /\ client = NoClient
    /\ promised = NoPromise
    /\ racing = NoRacing
    /\ hook = NoHook
    /\ route = NoRoute

\* check(identifier) on both limiters.
PairCheck(identifier) ==
    /\ Check(identifier)
    /\ LET out == RateLimiterCheck(config, twin.store, identifier, now)
       IN  twin' = [twin EXCEPT !.store = out.store,
                                !.last = [op |-> "check", id |-> identifier,
                                          result |-> out.result]]
    /\ UNCHANGED <<route, client, promised, racing, hook>>

\* getUsage(identifier) on both limiters.
PairGetUsage(identifier) ==
    /\ GetUsage(identifier)
    /\ twin' = [twin EXCEPT !.last =
                   [op |-> "getUsage", id |-> identifier,
                    result |-> RateLimiterGetUsage(config, twin.store, identifier, now)]]
    /\ UNCHANGED <<route, client, promised, racing, hook>>

\* The first limiter's interval callback.
LoneCleanup ==
    /\ Cleanup
    /\ twin' = [twin EXCEPT !.last = NoCall]
    /\ UNCHANGED <<route, client, promised, racing, hook>>

PairTick ==
    /\ Tick
    /\ twin' = [twin EXCEPT !.last = NoCall]
    /\ UNCHANGED <<route, client, promised, racing, hook>>

NextIdleInterval ==
    \/ \E identifier \in Identifiers : PairCheck(identifier)
    \/ \E identifier \in Identifiers : PairGetUsage(identifier)
    \/ LoneCleanup
    \/ PairTick

SpecIdleInterval == InitIdleInterval /\ [][NextIdleInterval]_vars

\* ------------------------------------------- check() scheduled statement by statement
\* What the limit would be worth in a runtime with threads and no lock: several
\* callers are inside check() together, and the three parts of its body (get or
\* create the entry and filter it; compare its length with maxRequests; push the
\* timestamp) are scheduled one by one, each part running undivided.  Every
\* caller works on the one entry object held by the store.  Checks of other keys
\* touch other entries and are left out.

\* The threads that call check(), all for the one identifier Contended.
Callers == {"thread1", "thread2"}
Contended == "ip1"

\* A caller outside check().
Outside == [pc |-> "outside", id |-> "", now |-> 0]

\* How many callers are inside check().
Inside(calls) == Cardinality({c \in Callers : calls[c].pc # "outside"})

InitRacing ==
    /\ config \in [maxRequests : MaxRequestsChoices,
                   windowMs : WindowChoices,
                   perIP : BOOLEAN]
    /\ store = [k \in {} |-> 0]
    /\ timerActive = TRUE
    /\ now = 0
    /\ cleanupDue = CleanupIntervalMs
    /\ ticks = 0
    /\ last = NoCall
    /\ admitted = [k \in Keys |-> <<>>]
    /\ full = [k \in Keys |-> {}]
    /\ burst = [k \in Keys |-> NoBurst]
    /\ twin = NoTwin
    /\ client = NoClient
    /\ promised = NoPromise
    /\ racing = [calls |-> [c \in Callers |-> Outside], peak |-> 0,
                 stalled |-> FALSE]
    /\ hook = NoHook
    /\ route = NoRoute

\* const now = Date.now(); the entry fetched or created; entry.requests filtered
EnterCheck(c, identifier) ==
    LET key   == KeyOf(identifier)
        entry == EntryOrNew(key, now)
        calls == [racing.calls EXCEPT
                     ![c] = [pc |-> "compare", id |-> identifier, now |-> now]]
    IN  /\ racing.calls[c].pc = "outside"
        /\ store' = MapSet(store, key,
                       [entry EXCEPT !.requests = FilterRequests(entry.requests, now)])
        /\ racing' = [racing EXCEPT
                         !.calls = calls,
                         !.peak = IF Inside(calls) > @ THEN Inside(calls) ELSE @]
        /\ last' = NoCall
        /\ UNCHANGED <<config, timerActive, cleanupDue, now, ticks, admitted, full,
                       burst, twin, route, client, promised, hook>>

\* if (entry.requests.length >= maxRequests) return { allowed: false, ... }
CompareLength(c) ==
    LET call  == racing.calls[c]
        entry == store[KeyOf(call.id)]
    IN  /\ call.pc = "compare"
        /\ IF LimitExceeded(entry.requests)
           THEN /\ racing' = [racing EXCEPT !.calls[c] = Outside]
                /\ last' = [op |-> "check", id |-> call.id,
                            result |-> [allowed |-> FALSE,
                                        retryAfter |->
                                            RetryAfter(entry.requests[1], call.now)]]
           ELSE /\ racing' = [racing EXCEPT !.calls[c].pc = "push"]
                /\ last' = NoCall
        /\ UNCHANGED <<config, store, timerActive, cleanupDue, now, ticks, admitted,
                       full, burst, twin, route, client, promised, hook>>

\* entry.requests.push(now); entry.count++; store.set(key, entry); return
PushTimestamp(c) ==
    LET call  == racing.calls[c]
        key   == KeyOf(call.id)
        entry == store[key]
    IN  /\ call.pc = "push"
        /\ store' = MapSet(store, key,
                       [entry EXCEPT !.requests = Append(@, call.now),
                                     !.count = @ + 1])
        /\ racing' = [racing EXCEPT !.calls[c] = Outside]
        /\ last' = [op |-> "check", id |-> call.id, result |-> [allowed |-> TRUE]]
        /\ admitted' = [admitted EXCEPT ![SpecKey(call.id)] =
                           Append(@, Admission(call.now, call.id))]
        /\ UNCHANGED <<config, timerActive, cleanupDue, now, ticks, full, burst,
                       twin, route, client, promised, hook>>

\* Time passes, also while callers are inside check(): racing.stalled records
\* that this has happened.
RacingTick ==
    /\ ticks < MaxTicks
    /\ \E d \in TickChoices : now' = now + d
    /\ ticks' = ticks + 1
    /\ last' = NoCall
    /\ racing' = [racing EXCEPT !.stalled = @ \/ Inside(racing.calls) > 0]
    /\ UNCHANGED <<config, store, timerActive, cleanupDue, admitted, full, burst,
                   twin, route, client, promised, hook>>

NextRacing ==
    \/ \E c \in Callers : EnterCheck(c, Contended)
    \/ \E c \in Callers : CompareLength(c)
    \/ \E c \in Callers : PushTimestamp(c)
    \/ RacingTick

SpecRacing == InitRacing /\ [][NextRacing]_vars

\* --------------------------------------------------- the route handlers
\* The process of src/src/types/index.ts (route/handler): the exported POST,
\* and three handlers made by createTelegramRoute when the module is loaded:
\*   "default"  createTelegramRoute()
\*   "custom"   createTelegramRoute({ rateLimit: CustomRateLimit })
\*   "open"     createTelegramRoute({ rateLimit: false })
\* None sets cors or a hook, so each has the default CORS config (origin '*').
\* Requests are POST requests with a JSON body.  A handler runs from the call to
\* the response as one step; its limiter checks come before its first await.

\* createDefaultRateLimiter: maxRequests: 20
DefaultMaxRequests == 20
\* createDefaultRateLimiter: windowMs: 60 * 1000
DefaultWindowMs == 60000
\* createGlobalRateLimiter: maxRequests: 30
GlobalMaxRequests == 30
\* createGlobalRateLimiter: windowMs: 1000
GlobalWindowMs == 1000
\* 'Retry-After': ipCheck.retryAfter?.toString() || '60'
IpRetryAfterFallback == 60
\* 'Retry-After': globalCheck.retryAfter?.toString() || '1'
GlobalRetryAfterFallback == 1
\* 'X-RateLimit-Limit': '20', and maxRequests of a handler without rateLimit object
HandlerDefaultLimit == 20

\* The rateLimit object given to the "custom" handler.
CustomRateLimit == [maxRequests |-> 1, windowMs |-> 60000]
\* The values of Date.now() at which requests are served.
RouteTimes == {0, 1000, 60000}

DefaultConfig ==
    [maxRequests |-> DefaultMaxRequests, windowMs |-> DefaultWindowMs, perIP |-> TRUE]
GlobalConfig ==
    [maxRequests |-> GlobalMaxRequests, windowMs |-> GlobalWindowMs, perIP |-> FALSE]
\* new RateLimiter(options.rateLimit): perIP: config.perIP ?? true
CustomConfig ==
    [maxRequests |-> CustomRateLimit.maxRequests,
     windowMs |-> CustomRateLimit.windowMs, perIP |-> TRUE]

\* A limiter constructed at time t: empty store, interval armed.
NewLimiter(cfg, t) ==
    [config |-> cfg, store |-> [k \in {} |-> 0], cleanupDue |-> t + CleanupIntervalMs]

\* What a variable holds that holds no limiter.
Null == "null"
Undefined == "undefined"
\* !x for x a limiter, null or undefined
Falsy(ref) == ref \in {Null, Undefined}

Routes == {"default", "custom", "open"}

\* options?.rateLimit of a handler: an object, false, or not given.
RateLimitOption(h) ==
    IF h = "custom" THEN "object" ELSE IF h = "open" THEN "false" ELSE Undefined

\* const customIpLimiter = ... : the limiter made at creation, null or undefined
CustomIpLimiter(h) ==
    IF RateLimitOption(h) # "false" /\ RateLimitOption(h) = "object"
    THEN "customIp"
    ELSE IF RateLimitOption(h) = "false" THEN Null ELSE Undefined

\* const customGlobalLimiter = ... : likewise, from createGlobalRateLimiter()
CustomGlobalLimiter(h) ==
    IF RateLimitOption(h) # "false" /\ RateLimitOption(h) = "object"
    THEN "customGlobal"
    ELSE IF RateLimitOption(h) = "false" THEN Null ELSE Undefined

\* Number.prototype.toString: the decimal digits of a natural number.
RECURSIVE NumberToString(_)
NumberToString(n) == IF n < 10 THEN <<n>> ELSE Append(NumberToString(n \div 10), n % 10)

\* Faulty variant of LimiterCheck: the verdict without the timestamp recorded.
LimiterCheckReadOnly(limiters, name, identifier, t) ==
    [limiters |-> limiters,
     result   |-> RateLimiterCheck(limiters[name].config, limiters[name].store,
                                   identifier, t).result]

\* limiter.check(identifier) on the limiter called name: the limiters after the
\* call and the value returned.
LimiterCheck(limiters, name, identifier, t) ==
    LET out == RateLimiterCheck(limiters[name].config, limiters[name].store,
                                identifier, t)
    IN  [limiters |-> [limiters EXCEPT ![name].store = out.store],
         result   |-> out.result]

\* limiter.getUsage(identifier) on the limiter called name.
LimiterGetUsage(limiters, name, identifier, t) ==
    RateLimiterGetUsage(limiters[name].config, limiters[name].store, identifier, t)

\* Faulty variant of RetryAfterHeader: the fallback, whatever the check returned.
RetryAfterHeaderFallback(check, fallback) == NumberToString(fallback)

\* check.retryAfter?.toString() || fallback
RetryAfterHeader(check, fallback) ==
    IF "retryAfter" \in DOMAIN check
    THEN NumberToString(check.retryAfter)
    ELSE NumberToString(fallback)

\* createCorsHeaders(request, createDefaultCorsConfig())
DefaultCorsHeaders ==
    [h \in {"Access-Control-Allow-Origin", "Access-Control-Allow-Methods",
            "Access-Control-Allow-Headers", "Access-Control-Max-Age"} |->
        CASE h = "Access-Control-Allow-Origin"  -> "*"
          [] h = "Access-Control-Allow-Methods" -> "POST, OPTIONS"
          [] h = "Access-Control-Allow-Headers" -> "Content-Type, Authorization"
          [] h = "Access-Control-Max-Age"       -> "86400"]

NoHeaders == [h \in {} |-> ""]

\* { ...a, ...b }
Spread(a, b) == [h \in DOMAIN a \cup DOMAIN b |-> IF h \in DOMAIN b THEN b[h] ELSE a[h]]

\* NextResponse.json({ success, error }, { status, headers })
Response(status, success, error, headers) ==
    [status |-> status, success |-> success, error |-> error, headers |-> headers]

\* A call of check made by a handler: on which limiter, for which identifier,
\* and the value returned.
CheckCall(name, identifier, result) ==
    [limiter |-> name, identifier |-> identifier, result |-> result]

\* What the handler did for the request, beside answering: whether it called
\* sendTelegramNotification, and the calls of check it made, in order.
Handled(rt, response, sent, calls) ==
    [rt EXCEPT !.response = response, !.sent = sent, !.calls = calls]

\* The module's limiters after `if (!ipRateLimiter) ipRateLimiter =
\* createDefaultRateLimiter()` and the same for globalRateLimiter, when
\* wantIp / wantGlobal say that the assignment is reached.
WithDefaults(rt, wantIp, wantGlobal, t) ==
    LET makeIp     == wantIp /\ Falsy(rt.ipRateLimiter)
        makeGlobal == wantGlobal /\ Falsy(rt.globalRateLimiter)
        made == [n \in (IF makeIp THEN {"defaultIp"} ELSE {})
                       \cup (IF makeGlobal THEN {"defaultGlobal"} ELSE {}) |->
                    IF n = "defaultIp" THEN NewLimiter(DefaultConfig, t)
                                       ELSE NewLimiter(GlobalConfig, t)]
    IN  [rt EXCEPT !.ipRateLimiter = IF makeIp THEN "defaultIp" ELSE @,
                   !.globalRateLimiter = IF makeGlobal THEN "defaultGlobal" ELSE @,
                   !.limiters = Spread(@, made)]

\* export async function POST(request), for a request [ip, hasMessage, sendOk]
\* served at time t by the process rt: the process after the call, with the
\* response.
PostOutcome(rt, request, t) ==
    LET rt0 == WithDefaults(rt, TRUE, TRUE, t)
        clientIp == request.ip
        ipCheck == LimiterCheck(rt0.limiters, rt0.ipRateLimiter, clientIp, t)
        rt1 == [rt0 EXCEPT !.limiters = ipCheck.limiters]
        globalCheck == LimiterCheck(rt1.limiters, rt1.globalRateLimiter, "global", t)
        rt2 == [rt1 EXCEPT !.limiters = globalCheck.limiters]
        usage == LimiterGetUsage(rt2.limiters, rt2.ipRateLimiter, clientIp, t)
        ipCalls == <<CheckCall(rt0.ipRateLimiter, clientIp, ipCheck.result)>>
        bothCalls ==
            Append(ipCalls, CheckCall(rt0.globalRateLimiter, "global", globalCheck.result))
    IN  IF ~ipCheck.result.allowed
        THEN Handled(rt1,
                 Response(429, FALSE, "Rate limit exceeded",
                     [h \in {"Retry-After", "X-RateLimit-Limit",
                             "X-RateLimit-Remaining", "X-RateLimit-Reset"} |->
                         CASE h = "Retry-After" ->
                                  RetryAfterHeader(ipCheck.result, IpRetryAfterFallback)
                           [] h = "X-RateLimit-Limit" -> NumberToString(HandlerDefaultLimit)
                           [] h = "X-RateLimit-Remaining" -> NumberToString(0)
                           [] h = "X-RateLimit-Reset" -> NumberToString(t)]),
                 FALSE, ipCalls)
        ELSE IF ~globalCheck.result.allowed
        THEN Handled(rt2,
                 Response(503, FALSE, "Server is busy",
                     [h \in {"Retry-After"} |->
                         RetryAfterHeader(globalCheck.result, GlobalRetryAfterFallback)]),
                 FALSE, bothCalls)
        ELSE IF ~request.hasMessage
        THEN Handled(rt2, Response(400, FALSE, "Message is required", NoHeaders),
                 FALSE, bothCalls)
        ELSE IF ~request.sendOk
        THEN Handled(rt2, Response(500, FALSE, "send failed", NoHeaders),
                 TRUE, bothCalls)
        ELSE Handled(rt2,
                 Response(200, TRUE, "",
                     [h \in {"X-RateLimit-Limit", "X-RateLimit-Remaining",
                             "X-RateLimit-Reset"} |->
                         CASE h = "X-RateLimit-Limit" -> NumberToString(HandlerDefaultLimit)
                           [] h = "X-RateLimit-Remaining" ->
                                  NumberToString(HandlerDefaultLimit - usage.count)
                           [] h = "X-RateLimit-Reset" -> NumberToString(usage.resetAt)]),
                 TRUE, bothCalls)

\* The handler returned by createTelegramRoute(options) of route h, for a POST
\* request [ip, hasMessage, sendOk] served at time t by the process rt: the
\* process after the call, with the response.  (Origin '*' allows every origin:
\* the 403 branch is not taken.)
RouteOutcome(rt, h, request, t) ==
    LET customIpLimiter == CustomIpLimiter(h)
        customGlobalLimiter == CustomGlobalLimiter(h)
        ipLimiter == IF customIpLimiter # Undefined
                     THEN customIpLimiter ELSE rt.ipRateLimiter
        globalLimiter == IF customGlobalLimiter # Undefined
                         THEN customGlobalLimiter ELSE rt.globalRateLimiter
        rt0 == WithDefaults(rt,
                            Falsy(ipLimiter) /\ customIpLimiter = Undefined,
                            Falsy(globalLimiter) /\ customGlobalLimiter = Undefined,
                            t)
        clientIp == request.ip
        finalIpLimiter == IF ~Falsy(ipLimiter) THEN ipLimiter ELSE rt0.ipRateLimiter
        finalGlobalLimiter ==
            IF ~Falsy(globalLimiter) THEN globalLimiter ELSE rt0.globalRateLimiter
        maxRequests == IF RateLimitOption(h) = "object"
                       THEN CustomRateLimit.maxRequests ELSE HandlerDefaultLimit
        ipCheck == IF Falsy(finalIpLimiter)
                   THEN [limiters |-> rt0.limiters, result |-> [allowed |-> TRUE]]
                   ELSE LimiterCheck(rt0.limiters, finalIpLimiter, clientIp, t)
        rt1 == [rt0 EXCEPT !.limiters = ipCheck.limiters]
        globalCheck == IF Falsy(finalGlobalLimiter)
                       THEN [limiters |-> rt1.limiters, result |-> [allowed |-> TRUE]]
                       ELSE LimiterCheck(rt1.limiters, finalGlobalLimiter, "global", t)
        rt2 == [rt1 EXCEPT !.limiters = globalCheck.limiters]
        ipCalls == IF Falsy(finalIpLimiter)
                   THEN <<>>
                   ELSE <<CheckCall(finalIpLimiter, clientIp, ipCheck.result)>>
        bothCalls ==
            IF Falsy(finalGlobalLimiter)
            THEN ipCalls
            ELSE Append(ipCalls,
                        CheckCall(finalGlobalLimiter, "global", globalCheck.result))
        rateHeaders ==
            IF Falsy(finalIpLimiter)
            THEN NoHeaders
            ELSE LET usage == LimiterGetUsage(rt2.limiters, finalIpLimiter, clientIp, t)
                 IN  [x \in {"X-RateLimit-Limit", "X-RateLimit-Remaining",
                             "X-RateLimit-Reset"} |->
                         CASE x = "X-RateLimit-Limit" -> NumberToString(maxRequests)
                           [] x = "X-RateLimit-Remaining" ->
                                  NumberToString(maxRequests - usage.count)
                           [] x = "X-RateLimit-Reset" -> NumberToString(usage.resetAt)]
    IN  IF ~ipCheck.result.allowed
        THEN Handled(rt1,
                 Response(429, FALSE, "Rate limit exceeded",
                     Spread(DefaultCorsHeaders,
                         [x \in {"Retry-After", "X-RateLimit-Limit",
                                 "X-RateLimit-Remaining", "X-RateLimit-Reset"} |->
                             CASE x = "Retry-After" ->
                                      RetryAfterHeader(ipCheck.result, IpRetryAfterFallback)
                               [] x = "X-RateLimit-Limit" -> NumberToString(maxRequests)
                               [] x = "X-RateLimit-Remaining" -> NumberToString(0)
                               [] x = "X-RateLimit-Reset" -> NumberToString(t)])),
                 FALSE, ipCalls)
        ELSE IF ~globalCheck.result.allowed
        THEN Handled(rt2,
                 Response(503, FALSE, "Server is busy",
                     Spread(DefaultCorsHeaders,
                         [x \in {"Retry-After"} |->
                             RetryAfterHeader(globalCheck.result,
                                              GlobalRetryAfterFallback)])),
                 FALSE, bothCalls)
        ELSE IF ~request.hasMessage
        THEN Handled(rt2,
                 Response(400, FALSE, "Message is required", DefaultCorsHeaders),
                 FALSE, bothCalls)
        ELSE IF ~request.sendOk
        THEN Handled(rt2, Response(500, FALSE, "send failed", DefaultCorsHeaders),
                 TRUE, bothCalls)
        ELSE Handled(rt2,
                 Response(200, TRUE, "", Spread(DefaultCorsHeaders, rateHeaders)),
                 TRUE, bothCalls)

\* The variables of the limiter under study, which the process leaves alone.
aloneVars ==
    <<config, store, timerActive, cleanupDue, last, admitted, full, burst, twin, client,
      promised, racing, hook>>

\* The requests: the client address getClientIp finds, whether the body has a
\* message, and whether sendTelegramNotification resolves when called (which
\* matters only when there is a message).
Requests ==
    {r \in [ip : Identifiers, hasMessage : BOOLEAN, sendOk : BOOLEAN] :
        ~r.hasMessage => r.sendOk}

NoResponse == Response(0, FALSE, "", NoHeaders)

\* The handlers that are documented to limit: all but "open".
RateLimited == {"POST", "default", "custom"}

\* The process with the request counted: sends is the number of
\* sendTelegramNotification calls the rate-limited handlers made at this instant.
Counted(out, h) ==
    [out EXCEPT !.sends = @ + (IF out.sent /\ h \in RateLimited THEN 1 ELSE 0)]

\* The module loaded at time 0: ipRateLimiter and globalRateLimiter null, the
\* three handlers created, "custom" with its two limiters.
ColdRoute ==
    [serving |-> TRUE,
     ipRateLimiter |-> Null,
     globalRateLimiter |-> Null,
     limiters |-> [n \in {"customIp", "customGlobal"} |->
                      IF n = "customIp" THEN NewLimiter(CustomConfig, 0)
                                        ELSE NewLimiter(GlobalConfig, 0)],
     response |-> NoResponse,
     sent |-> FALSE,
     calls |-> <<>>,
     sends |-> 0,
     warmed |-> <<0, 0>>,
     served |-> 0]

\* A run begins with a warm-up: at time 0, POST serves requests with a message
\* from ip1 and then from ip2, as many as one of the WarmUps says.  After it, up
\* to MaxServed requests of any kind are served by any handler.
WarmUps == {<<0, 0>>, <<19, 0>>, <<19, 10>>, <<20, 10>>}

\* v requests served is a stage of the warm-up.
OnWarmUpPath(v) ==
    \E w \in WarmUps : v[1] <= w[1] /\ v[2] <= w[2] /\ (v[2] > 0 => v[1] = w[1])

\* The module loaded at time 0.
InitRoute ==
    /\ config = DefaultConfig
    /\ store = [k \in {} |-> 0]
    /\ timerActive = TRUE
    /\ now = 0
    /\ cleanupDue = CleanupIntervalMs
    /\ ticks = 0
    /\ last = NoCall
    /\ admitted = [k \in Keys |-> <<>>]
    /\ full = [k \in Keys |-> {}]
    /\ burst = [k \in Keys |-> NoBurst]
    /\ twin = NoTwin
    /\ client = NoClient
    /\ promised = NoPromise
    /\ racing = NoRacing
    /\ hook = NoHook
    /\ route = ColdRoute

\* A request of the warm-up, served by the exported POST.
WarmUpPost(ip) ==
    LET v == IF ip = "ip1" THEN <<route.warmed[1] + 1, route.warmed[2]>>
                           ELSE <<route.warmed[1], route.warmed[2] + 1>>
    IN  /\ route.served = 0
        /\ ticks = 0
        /\ OnWarmUpPath(v)
        /\ route' = [Counted(PostOutcome(route, [ip |-> ip, hasMessage |-> TRUE,
                                                 sendOk |-> TRUE], now), "POST")
                        EXCEPT !.warmed = v]
        /\ UNCHANGED <<aloneVars, now, ticks>>

\* A request served by the exported POST.
Post(request) ==
    /\ route.warmed \in WarmUps
    /\ route.served < MaxServed
    /\ route' = [Counted(PostOutcome(route, request, now), "POST")
                    EXCEPT !.served = @ + 1]
    /\ UNCHANGED <<aloneVars, now, ticks>>

\* A request served by the handler of route h.
Route(h, request) ==
    /\ route.warmed \in WarmUps
    /\ route.served < MaxServed
    /\ route' = [Counted(RouteOutcome(route, h, request, now), h)
                    EXCEPT !.served = @ + 1]
    /\ UNCHANGED <<aloneVars, now, ticks>>

\* The limiters whose interval is due.
DueLimiters == {n \in DOMAIN route.limiters : now >= route.limiters[n].cleanupDue}

\* The interval callbacks of the limiters that are due: the event loop runs the
\* timers that have expired one after the other, before it takes a request.
RouteCleanup ==
    /\ DueLimiters # {}
    /\ route' = [route EXCEPT !.limiters =
                    [n \in DOMAIN route.limiters |->
                        LET limiter == route.limiters[n]
                        IN  IF n \in DueLimiters
                            THEN [limiter EXCEPT
                                     !.store = RateLimiterCleanup(limiter.config,
                                                                  limiter.store, now),
                                     !.cleanupDue = now + CleanupIntervalMs]
                            ELSE limiter]]
    /\ UNCHANGED <<aloneVars, now, ticks>>

\* Time passes between two requests.
RouteTick ==
    /\ route.warmed \in WarmUps
    /\ \E t \in RouteTimes : t > now /\ now' = t
    /\ ticks' = ticks + 1
    /\ route' = [route EXCEPT !.response = NoResponse, !.sent = FALSE,
                              !.calls = <<>>, !.sends = 0]
    /\ UNCHANGED aloneVars

NextRoute ==
    \/ \E ip \in Identifiers : WarmUpPost(ip)
    \/ \E request \in Requests : Post(request)
    \/ \E h \in Routes, request \in Requests : Route(h, request)
    \/ RouteCleanup
    \/ RouteTick

SpecRoute == InitRoute /\ [][NextRoute]_vars

\* ------------------------------------------------- requests in flight
\* A handler gives up control at each await (request.json(), the hooks,
\* sendTelegramNotification).  Its limiter checks come before the first await
\* and getUsage after the last: other requests, interval callbacks and time
\* come in between.  A request whose checks have passed is in flight until its
\* handler resumes and answers.

\* The requests taken while others are in flight: those with a message, by
\* the handlers that limit, from a process that has served nothing or 19
\* requests of one client.  The interval callbacks run as soon as they are due
\* (the timers phase of the event loop comes before the poll phase).
InFlightRequests == {r \in Requests : r.hasMessage}
InFlightWarmUps == {<<0, 0>>, <<19, 0>>}

\* Faulty variant of RateLimitLimit: '20' whatever the options.
RateLimitLimitHardCoded(h) == HandlerDefaultLimit

\* typeof options?.rateLimit === 'object' ? options.rateLimit.maxRequests : 20
\* (and the '20' of POST)
RateLimitLimit(h) ==
    IF RateLimitOption(h) = "object" THEN CustomRateLimit.maxRequests
                                     ELSE HandlerDefaultLimit

\* The handler h run without interruption.
HandlerOutcome(rt, h, request, t) ==
    IF h = "POST" THEN PostOutcome(rt, request, t) ELSE RouteOutcome(rt, h, request, t)

\* 'X-RateLimit-Limit', 'X-RateLimit-Remaining' and 'X-RateLimit-Reset' of a
\* success response.
UsageHeaders(limit, usage) ==
    [x \in {"X-RateLimit-Limit", "X-RateLimit-Remaining", "X-RateLimit-Reset"} |->
        CASE x = "X-RateLimit-Limit" -> NumberToString(limit)
          [] x = "X-RateLimit-Remaining" -> NumberToString(limit - usage.count)
          [] x = "X-RateLimit-Reset" -> NumberToString(usage.resetAt)]

\* The request in flight after handler h made its checks: calls are the calls
\* of check it made, ipLimiter is its finalIpLimiter (the limiter of its call
\* for the client's address, null if it made none).
Pending(h, request, calls) ==
    LET ipCalls == {i \in DOMAIN calls : calls[i].identifier = request.ip}
    IN  [h |-> h, request |-> request, calls |-> calls,
         ipLimiter |-> IF ipCalls = {} THEN Null
                       ELSE calls[CHOOSE i \in ipCalls : TRUE].limiter]

\* The part of a handler from `await request.json()` to its response, resumed
\* at time t for the request in flight p.
AnswerOutcome(rt, p, t) ==
    LET headers == IF p.h = "POST" THEN NoHeaders ELSE DefaultCorsHeaders
        responseHeaders ==
            IF Falsy(p.ipLimiter)
            THEN headers
            ELSE Spread(headers,
                        UsageHeaders(RateLimitLimit(p.h),
                                     LimiterGetUsage(rt.limiters, p.ipLimiter,
                                                     p.request.ip, t)))
    IN  IF ~p.request.hasMessage
        THEN Handled(rt, Response(400, FALSE, "Message is required", headers),
                 FALSE, p.calls)
        ELSE IF ~p.request.sendOk
        THEN Handled(rt, Response(500, FALSE, "send failed", headers), TRUE, p.calls)
        ELSE Handled(rt, Response(200, TRUE, "", responseHeaders), TRUE, p.calls)

\* A handler that is not interrupted between its checks and its response
\* answers as HandlerOutcome says.
AnswerAgreement ==
    route.serving =>
        \A h \in {"POST"} \cup Routes, request \in Requests :
            LET out == HandlerOutcome(route, h, request, now)
                checked == [route EXCEPT !.ipRateLimiter = out.ipRateLimiter,
                                         !.globalRateLimiter = out.globalRateLimiter,
                                         !.limiters = out.limiters]
            IN  out.response.status \notin {429, 503} =>
                    AnswerOutcome(checked, Pending(h, request, out.calls), now) = out

\* The module loaded at time 0, no request in flight, no response given yet.
ColdInFlight == Spread(ColdRoute, [inflight |-> EmptyBag, by |-> "none"])

InitInFlight ==
    /\ config = DefaultConfig
    /\ store = [k \in {} |-> 0]
    /\ timerActive = TRUE
    /\ now = 0
    /\ cleanupDue = CleanupIntervalMs
    /\ ticks = 0
    /\ last = NoCall
    /\ admitted = [k \in Keys |-> <<>>]
    /\ full = [k \in Keys |-> {}]
    /\ burst = [k \in Keys |-> NoBurst]
    /\ twin = NoTwin
    /\ client = NoClient
    /\ promised = NoPromise
    /\ racing = NoRacing
    /\ hook = NoHook
    /\ route = ColdInFlight

\* Handler h takes a request and runs to its first await: it answers at once
\* if a check denies, else the request is in flight.
Begin(h, request) ==
    LET out == HandlerOutcome(route, h, request, now)
    IN  /\ route.warmed \in InFlightWarmUps
        /\ route.served < MaxServed
        /\ DueLimiters = {}
        /\ route' =
              IF out.response.status \in {429, 503}
              THEN [out EXCEPT !.served = @ + 1, !.by = h]
              ELSE [route EXCEPT
                       !.ipRateLimiter = out.ipRateLimiter,
                       !.globalRateLimiter = out.globalRateLimiter,
                       !.limiters = out.limiters,
                       !.inflight = @ (+) SetToBag({Pending(h, request, out.calls)}),
                       !.response = NoResponse, !.sent = FALSE, !.calls = <<>>,
                       !.served = @ + 1]
        /\ UNCHANGED <<aloneVars, now, ticks>>

\* The handler of the request in flight p resumes and answers.
Finish(p) ==
    /\ BagIn(p, route.inflight)
    /\ DueLimiters = {}
    /\ route' = [Counted(AnswerOutcome(route, p, now), p.h) EXCEPT
                    !.inflight = @ (-) SetToBag({p}), !.by = p.h]
    /\ UNCHANGED <<aloneVars, now, ticks>>

NextInFlight ==
    \/ \E ip \in Identifiers : WarmUpPost(ip)
    \/ \E h \in RateLimited, request \in InFlightRequests : Begin(h, request)
    \/ \E p \in BagToSet(route.inflight) : Finish(p)
    \/ RouteCleanup
    \/ RouteTick

SpecInFlight == InitInFlight /\ [][NextInFlight]_vars

\* ------------------------------------------------- CORS and the hooks
\* One handler made by createTelegramRoute(options) in a process that has
\* served nothing else: options are a rateLimit object or false, cors left to
\* its default, given as { origin: AllowedOrigin } or false, and each hook
\* absent or present.  A present onBeforeSend or onAfterSend returns or throws
\* an Error; a present onError returns.  The handler runs a request from the
\* call to the response as one step; trace lists the hooks and the send it
\* called, in order.

Hook == {"absent", "returns", "throws"}

HookOptions ==
    [rateLimit : {"object", "false"}, cors : {"default", "origin", "false"},
     onBeforeSend : Hook, onAfterSend : Hook, onError : {"absent", "returns"}]

\* cors: { origin: 'https://example.com' }
AllowedOrigin == "https://example.com"
\* request.headers.get('origin'): null, the origin configured, or another
NoOrigin == "null"
Origins == {NoOrigin, AllowedOrigin, "https://evil.com"}

\* The requests: method, Origin header, client address, body (JSON with a
\* message, JSON without, or not JSON), and whether sendTelegramNotification
\* resolves when called.
HookRequests ==
    [method : {"POST", "OPTIONS"}, origin : Origins, ip : Identifiers,
     body : {"message", "empty", "invalid"}, sendOk : BOOLEAN]

\* Faulty variant of IsOriginAllowed: every origin given is allowed.
IsOriginAllowedAnyOrigin(origin, cors) == origin # NoOrigin

\* isOriginAllowed(origin, config), for config the default (origin '*') or
\* { origin: AllowedOrigin }
IsOriginAllowed(origin, cors) ==
    IF origin = NoOrigin THEN FALSE
    ELSE IF cors = "default" THEN TRUE
    ELSE origin = AllowedOrigin

\* corsConfig ? createCorsHeaders(request, corsConfig) : {}
CorsHeaders(cors, origin) ==
    CASE cors = "false" -> NoHeaders
      [] cors = "default" -> DefaultCorsHeaders
      [] cors = "origin" ->
             IF origin # NoOrigin /\ IsOriginAllowed(origin, cors)
             THEN [x \in {"Access-Control-Allow-Origin"} |-> origin]
             ELSE NoHeaders

\* A call the handler made: a hook or sendTelegramNotification, with the
\* message of the error given to onError.
Called(name, error) == [call |-> name, error |-> error]

\* The message of what a step throws.
JsonError == "Unexpected end of JSON input"
BeforeSendError == "Suspected spam"
SendError == "Telegram API error"
AfterSendError == "after send failed"

\* Faulty variant of SendReached: the send follows whatever the hook did.
SendReachedAlways(options) == TRUE

\* `await options.onBeforeSend(body)` returns, or there is no such hook: the
\* handler goes on to sendTelegramNotification.
SendReached(options) == options.onBeforeSend # "throws"

\* Faulty variant of AfterSendReached: the hook is called though the send threw.
AfterSendReachedOnFailure(options, request) == options.onAfterSend # "absent"

\* `await sendTelegramNotification(...)` returns and there is an onAfterSend.
AfterSendReached(options, request) ==
    request.sendOk /\ options.onAfterSend # "absent"

\* The handler from the onBeforeSend hook to the onAfterSend hook, for a body
\* with a message: the calls made, and what was thrown (nothing, or one error).
Lifecycle(options, request) ==
    LET before == options.onBeforeSend # "absent"
        send   == SendReached(options)
        after  == send /\ AfterSendReached(options, request)
    IN  [trace |->
             (IF before THEN <<Called("onBeforeSend", "")>> ELSE <<>>)
             \o (IF send THEN <<Called("sendTelegramNotification", "")>> ELSE <<>>)
             \o (IF after THEN <<Called("onAfterSend", "")>> ELSE <<>>),
         thrown |->
             IF options.onBeforeSend = "throws" THEN <<BeforeSendError>>
             ELSE IF send /\ ~request.sendOk THEN <<SendError>>
             ELSE IF after /\ options.onAfterSend = "throws" THEN <<AfterSendError>>
             ELSE <<>>]

\* The process after the handler answered the request.
Answered(rt, request, response, trace, calls) ==
    [rt EXCEPT !.request = request, !.response = response, !.trace = trace,
               !.calls = calls]

\* What stands for the response when the promise returned by the handler
\* rejects: no HTTP response, and the error thrown by the onError hook.
Rejected ==
    [status |-> 0, success |-> FALSE, error |-> "onError failed",
     headers |-> NoHeaders]

\* The handler returned by createTelegramRoute(rt.options), for the request
\* served at time t by the process rt: the process after the call.
HookedOutcome(rt, request, t) ==
    LET options == rt.options
        headers == CorsHeaders(options.cors, request.origin)
        customIpLimiter == IF options.rateLimit = "object" THEN "customIp" ELSE Null
        customGlobalLimiter ==
            IF options.rateLimit = "object" THEN "customGlobal" ELSE Null
        clientIp == request.ip
        finalIpLimiter ==
            IF ~Falsy(customIpLimiter) THEN customIpLimiter ELSE rt.ipRateLimiter
        finalGlobalLimiter ==
            IF ~Falsy(customGlobalLimiter) THEN customGlobalLimiter
                                           ELSE rt.globalRateLimiter
        maxRequests == IF options.rateLimit = "object"
                       THEN CustomRateLimit.maxRequests ELSE HandlerDefaultLimit
        ipCheck == IF Falsy(finalIpLimiter)
                   THEN [limiters |-> rt.limiters, result |-> [allowed |-> TRUE]]
                   ELSE LimiterCheck(rt.limiters, finalIpLimiter, clientIp, t)
        rt1 == [rt EXCEPT !.limiters = ipCheck.limiters]
        globalCheck == IF Falsy(finalGlobalLimiter)
                       THEN [limiters |-> rt1.limiters, result |-> [allowed |-> TRUE]]
                       ELSE LimiterCheck(rt1.limiters, finalGlobalLimiter, "global", t)
        rt2 == [rt1 EXCEPT !.limiters = globalCheck.limiters]
        ipCalls == IF Falsy(finalIpLimiter)
                   THEN <<>>
                   ELSE <<CheckCall(finalIpLimiter, clientIp, ipCheck.result)>>
        bothCalls ==
            IF Falsy(finalGlobalLimiter)
            THEN ipCalls
            ELSE Append(ipCalls,
                        CheckCall(finalGlobalLimiter, "global", globalCheck.result))
        life == IF request.body = "invalid"
                THEN [trace |-> <<>>, thrown |-> <<JsonError>>]
                ELSE Lifecycle(options, request)
        caught == IF options.onError # "absent"
                  THEN Append(life.trace, Called("onError", life.thrown[1]))
                  ELSE life.trace
        responseHeaders ==
            IF Falsy(finalIpLimiter)
            THEN headers
            ELSE Spread(headers,
                        UsageHeaders(maxRequests,
                                     LimiterGetUsage(rt2.limiters, finalIpLimiter,
                                                     clientIp, t)))
    IN  IF options.cors # "false" /\ request.method = "OPTIONS"
        THEN \* new NextResponse(null, { status: 204, headers })
             Answered(rt, request, Response(204, FALSE, "", headers), <<>>, <<>>)
        ELSE IF ~ipCheck.result.allowed
        THEN Answered(rt1, request,
                 Response(429, FALSE, "Rate limit exceeded",
                     Spread(headers,
                         [x \in {"Retry-After", "X-RateLimit-Limit",
                                 "X-RateLimit-Remaining", "X-RateLimit-Reset"} |->
                             CASE x = "Retry-After" ->
                                      RetryAfterHeader(ipCheck.result, IpRetryAfterFallback)
                               [] x = "X-RateLimit-Limit" -> NumberToString(maxRequests)
                               [] x = "X-RateLimit-Remaining" -> NumberToString(0)
                               [] x = "X-RateLimit-Reset" -> NumberToString(t)])),
                 <<>>, ipCalls)
        ELSE IF ~globalCheck.result.allowed
        THEN Answered(rt2, request,
                 Response(503, FALSE, "Server is busy",
                     Spread(headers,
                         [x \in {"Retry-After"} |->
                             RetryAfterHeader(globalCheck.result,
                                              GlobalRetryAfterFallback)])),
                 <<>>, bothCalls)
        ELSE IF /\ options.cors # "false"
                /\ request.origin # NoOrigin
                /\ ~IsOriginAllowed(request.origin, options.cors)
        THEN Answered(rt2, request,
                 Response(403, FALSE, "Origin not allowed", NoHeaders),
                 <<>>, bothCalls)
        ELSE IF request.body = "empty"
        THEN Answered(rt2, request,
                 Response(400, FALSE, "Message is required", headers),
                 <<>>, bothCalls)
        ELSE IF life.thrown # <<>> /\ options.onError = "throws"
        THEN \* await options.onError(err, body) throws inside the catch block
             Answered(rt2, request, Rejected, caught, bothCalls)
        ELSE IF life.thrown # <<>>
        THEN Answered(rt2, request,
                 Response(500, FALSE, life.thrown[1], headers), caught, bothCalls)
        ELSE Answered(rt2, request,
                 Response(200, TRUE, "", responseHeaders), life.trace, bothCalls)

NoRequest ==
    [method |-> "none", origin |-> NoOrigin, ip |-> "", body |-> "empty",
     sendOk |-> TRUE]

\* The module loaded at time 0 with the one handler created.
ColdHooks(options) ==
    [serving |-> TRUE,
     options |-> options,
     ipRateLimiter |-> Null,
     globalRateLimiter |-> Null,
     limiters |-> IF options.rateLimit = "object"
                  THEN ColdRoute.limiters ELSE [n \in {} |-> 0],
     request |-> NoRequest,
     response |-> NoResponse,
     trace |-> <<>>,
     calls |-> <<>>,
     served |-> 0]

InitHooks ==
    /\ config = DefaultConfig
    /\ store = [k \in {} |-> 0]
    /\ timerActive = TRUE
    /\ now = 0
    /\ cleanupDue = CleanupIntervalMs
    /\ ticks = 0
    /\ last = NoCall
    /\ admitted = [k \in Keys |-> <<>>]
    /\ full = [k \in Keys |-> {}]
    /\ burst = [k \in Keys |-> NoBurst]
    /\ twin = NoTwin
    /\ client = NoClient
    /\ promised = NoPromise
    /\ racing = NoRacing
    /\ hook = NoHook
    /\ route \in {ColdHooks(options) : options \in HookOptions}

\* The handler serves a request.
Handle(request) ==
    /\ route.served < MaxServed
    /\ route' = [HookedOutcome(route, request, now) EXCEPT !.served = @ + 1]
    /\ UNCHANGED <<aloneVars, now, ticks>>

NextHooks == \E request \in HookRequests : Handle(request)

SpecHooks == InitHooks /\ [][NextHooks]_vars

\* ------------------------------------------- a handler near the global limit
\* The handler of SpecHooks made with a rateLimit object, either cold or after it
\* has served, at time 0, one request of each of OtherClients: its global
\* limiter then has one slot left in the running second.  The handlers are those
\* without an onAfterSend hook, which runs after every stage studied here.

\* The clients served before: one fewer than GlobalMaxRequests.
OtherClients ==
    {"10.0.0.1", "10.0.0.2", "10.0.0.3", "10.0.0.4", "10.0.0.5", "10.0.0.6",
     "10.0.0.7", "10.0.0.8", "10.0.0.9", "10.0.0.10", "10.0.0.11", "10.0.0.12",
     "10.0.0.13", "10.0.0.14", "10.0.0.15", "10.0.0.16", "10.0.0.17", "10.0.0.18",
     "10.0.0.19", "10.0.0.20", "10.0.0.21", "10.0.0.22", "10.0.0.23", "10.0.0.24",
     "10.0.0.25", "10.0.0.26", "10.0.0.27", "10.0.0.28", "10.0.0.29"}

\* The limiters of the handler after one admitted request of each of OtherClients
\* at time 0.
WarmLimiters ==
    [n \in {"customIp", "customGlobal"} |->
        IF n = "customIp"
        THEN [NewLimiter(CustomConfig, 0) EXCEPT
                 !.store = [k \in OtherClients |->
                               [count |-> 1, resetAt |-> CustomConfig.windowMs,
                                requests |-> <<0>>]]]
        ELSE [NewLimiter(GlobalConfig, 0) EXCEPT
                 !.store = [k \in {"global"} |->
                               [count |-> Cardinality(OtherClients),
                                resetAt |-> GlobalConfig.windowMs,
                                requests |-> [i \in 1 .. Cardinality(OtherClients)
                                                 |-> 0]]]]]

InitPipeline ==
    /\ config = DefaultConfig
    /\ store = [k \in {} |-> 0]
    /\ timerActive = TRUE
    /\ now = 0
    /\ cleanupDue = CleanupIntervalMs
    /\ ticks = 0
    /\ last = NoCall
    /\ admitted = [k \in Keys |-> <<>>]
    /\ full = [k \in Keys |-> {}]
    /\ burst = [k \in Keys |-> NoBurst]
    /\ twin = NoTwin
    /\ client = NoClient
    /\ promised = NoPromise
    /\ racing = NoRacing
    /\ hook = NoHook
    /\ \E options \in {o \in HookOptions : /\ o.rateLimit = "object"
                                           /\ o.onAfterSend = "absent"} :
          route \in {ColdHooks(options),
                     [ColdHooks(options) EXCEPT !.limiters = WarmLimiters]}

SpecPipeline == InitPipeline /\ [][NextHooks]_vars

\* ------------------------------------------------ an onError hook that throws
\* The handler of SpecHooks with the onError hooks that throw added to those
\* that return, without rate limiting and with the default CORS config.

InitThrowing ==
    /\ config = DefaultConfig
    /\ store = [k \in {} |-> 0]
    /\ timerActive = TRUE
    /\ now = 0
    /\ cleanupDue = CleanupIntervalMs
    /\ ticks = 0
    /\ last = NoCall
    /\ admitted = [k \in Keys |-> <<>>]
    /\ full = [k \in Keys |-> {}]
    /\ burst = [k \in Keys |-> NoBurst]
    /\ twin = NoTwin
    /\ client = NoClient
    /\ promised = NoPromise
    /\ racing = NoRacing
    /\ hook = NoHook
    /\ \E options \in [rateLimit : {"false"}, cors : {"default"},
                        onBeforeSend : Hook, onAfterSend : Hook,
                        onError : {"absent", "returns", "throws"}] :
          route = ColdHooks(options)

SpecThrowing == InitThrowing /\ [][NextHooks]_vars

\* --------------------------------------------- sendTelegramNotification
\* One call of sendTelegramNotification (server/send) and the makeRequest of
\* each call it makes on its TelegramClient (src/src/lib/telegram.ts).  Every
\* await is a step: a fetch settles with one of FetchOutcomes, a delay ends.

\* const maxRetries = 3
MaxRetries == 3
\* data.error_code of a response without one
NoCode == 0

Files == {"a.txt", "b.txt"}
Messages == {"Hello", "Bye"}

\* options.files: not given, or a list of up to MaxFiles files.
FileOptions ==
    {[given |-> FALSE, list |-> <<>>]}
    \cup {[given |-> TRUE, list |-> l] : l \in UNION {[1..n -> Files] : n \in 0..MaxFiles}}

\* What `await fetch(...)` and `await response.json()` come to: a result, ok
\* without result, ok: false with or without error_code, or a rejection.
ErrorCodes == {400, 499, 500}
FetchOutcomes ==
    {[kind |-> k, code |-> NoCode] : k \in {"result", "noresult", "network"}}
    \cup {[kind |-> "api", code |-> c] : c \in ErrorCodes \cup {NoCode}}

\* The Error an attempt throws into the catch of makeRequest.
ErrorOf(outcome, attempt) ==
    [message |-> CASE outcome.kind = "api" -> "Telegram API error"
                   [] outcome.kind = "noresult" -> "No result from Telegram API"
                   [] outcome.kind = "network" -> "fetch failed",
     code    |-> outcome.code,
     attempt |-> attempt]

\* Faulty variant of IsClientError: no error stops the retries.
IsClientErrorNever(error) == FALSE

\* error instanceof Error && 'code' in error && typeof error.code === 'number'
\*     && error.code >= 400 && error.code < 500
IsClientError(error) ==
    error.code # NoCode /\ error.code >= 400 /\ error.code < 500

\* Math.pow(2, attempt) * 1000
Backoff(attempt) == (2 ^ attempt) * 1000

\* files && files.length > 0
HasFiles(files) == files.given /\ Len(files.list) > 0

\* makeRequest entered: attempt 1, nothing fetched, no delay yet.
NewRequest ==
    [attempt |-> 1, outcomes |-> <<>>, waits |-> <<>>, lastError |-> <<>>,
     state |-> "running", returned |-> <<>>, thrown |-> <<>>]

\* Faulty variant of DocumentCall: the caption is left out.
DocumentCallNoCaption(file, message) ==
    [method |-> "sendDocument", file |-> file, text |-> ""]

\* client.sendDocument(file, { caption: message, ... }) / client.sendMessage(message, ...)
DocumentCall(file, message) == [method |-> "sendDocument", file |-> file, text |-> message]
MessageCall(message) == [method |-> "sendMessage", file |-> "", text |-> message]

ConfigError == [message |-> "TELEGRAM_BOT_TOKEN is not set", code |-> NoCode, attempt |-> 0]

\* sendTelegramNotification(options) is called; envOk says whether
\* TELEGRAM_BOT_TOKEN and TELEGRAM_CHAT_ID are set.  It runs to its first await.
SendTelegramNotification(message, files, envOk) ==
    /\ client.pc = "idle"
    /\ client' =
          [pc |-> IF envOk THEN "fetch" ELSE "done",
           message |-> message, files |-> files, envOk |-> envOk,
           index |-> IF envOk /\ HasFiles(files) THEN 1 ELSE 0,
           calls |-> IF ~envOk THEN <<>>
                     ELSE IF HasFiles(files)
                     THEN <<DocumentCall(files.list[1], message)>>
                     ELSE <<MessageCall(message)>>,
           request |-> NewRequest,
           settled |-> IF envOk THEN "pending" ELSE "rejected",
           error |-> IF envOk THEN <<>> ELSE <<ConfigError>>]
    /\ UNCHANGED <<limiterVars, twin, route, promised, racing, hook>>

\* The fetch of the current attempt settles.
Fetch(outcome) ==
    LET request == client.request
        error == ErrorOf(outcome, request.attempt)
        fetched == [request EXCEPT !.outcomes = Append(@, outcome)]
        failed == [fetched EXCEPT !.lastError = <<error>>]
    IN  /\ client.pc = "fetch"
        /\ client' =
              IF outcome.kind = "result"
              THEN [client EXCEPT !.pc = "returned",
                                  !.request = [fetched EXCEPT
                                                  !.state = "returned",
                                                  !.returned = <<request.attempt>>]]
              ELSE IF IsClientError(error)
              THEN [client EXCEPT !.pc = "done",
                                  !.request = [failed EXCEPT !.state = "thrown",
                                                             !.thrown = <<error>>],
                                  !.settled = "rejected",
                                  !.error = <<error>>]
              ELSE IF request.attempt < MaxRetries
              THEN [client EXCEPT !.pc = "wait", !.request = failed]
              ELSE \* the loop ends: throw lastError || new Error(...)
                   [client EXCEPT !.pc = "done",
                                  !.request = [failed EXCEPT !.state = "thrown",
                                                             !.thrown = failed.lastError],
                                  !.settled = "rejected",
                                  !.error = failed.lastError]
        /\ UNCHANGED <<limiterVars, twin, route, promised, racing, hook>>

\* The delay before the next attempt ends.
Wait ==
    /\ client.pc = "wait"
    /\ client' = [client EXCEPT
                     !.pc = "fetch",
                     !.request.waits = Append(@, Backoff(client.request.attempt)),
                     !.request.attempt = @ + 1]
    /\ UNCHANGED <<limiterVars, twin, route, promised, racing, hook>>

\* makeRequest has returned: sendTelegramNotification goes on to the next file,
\* or returns.
Return ==
    /\ client.pc = "returned"
    /\ client' =
          IF HasFiles(client.files) /\ client.index < Len(client.files.list)
          THEN [client EXCEPT
                   !.pc = "fetch",
                   !.index = @ + 1,
                   !.calls = Append(@, DocumentCall(client.files.list[client.index + 1],
                                                    client.message)),
                   !.request = NewRequest]
          ELSE [client EXCEPT !.pc = "done", !.settled = "resolved"]
    /\ UNCHANGED <<limiterVars, twin, route, promised, racing, hook>>

InitSend ==
    /\ config = DefaultConfig
    /\ store = [k \in {} |-> 0]
    /\ timerActive = TRUE
    /\ now = 0
    /\ cleanupDue = CleanupIntervalMs
    /\ ticks = 0
    /\ last = NoCall
    /\ admitted = [k \in Keys |-> <<>>]
    /\ full = [k \in Keys |-> {}]
    /\ burst = [k \in Keys |-> NoBurst]
    /\ twin = NoTwin
    /\ route = NoRoute
    /\ client = NoClient
    /\ promised = NoPromise
    /\ racing = NoRacing
    /\ hook = NoHook

NextSend ==
    \/ \E message \in Messages, files \in FileOptions, envOk \in BOOLEAN :
           SendTelegramNotification(message, files, envOk)
    \/ \E outcome \in FetchOutcomes : Fetch(outcome)
    \/ Wait
    \/ Return

\* Every fetch settles (the HTTP client times out) and every delay ends.
SpecSend == InitSend /\ [][NextSend]_vars /\ WF_vars(NextSend)

\* ------------------------------------------------------- useTelegramNotify
\* A component that uses the hook of src/src/hooks/useTelegramNotify.ts.  A call
\* of send runs up to its first await as one step and from the settling of its
\* request to its end as another; calls of send and of reset come in any order,
\* also while earlier calls of send are under way.  setLoading, setError and
\* setSuccess take effect in the order they are called.

\* The calls of send that can be under way together.
Sends == {"first", "second"}

\* No call of send has settled since the last call of send or reset.
NoSettle ==
    [send |-> "none", ok |-> FALSE, outcome |-> "none", thrown |-> Null,
     onSuccess |-> 0, onError |-> 0]

\* useTelegramNotify(config): useState(false), useState(null), useState(false)
InitNotify ==
    /\ config = DefaultConfig
    /\ store = [k \in {} |-> 0]
    /\ timerActive = TRUE
    /\ now = 0
    /\ cleanupDue = CleanupIntervalMs
    /\ ticks = 0
    /\ last = NoCall
    /\ admitted = [k \in Keys |-> <<>>]
    /\ full = [k \in Keys |-> {}]
    /\ burst = [k \in Keys |-> NoBurst]
    /\ twin = NoTwin
    /\ client = NoClient
    /\ promised = NoPromise
    /\ racing = NoRacing
    /\ route = NoRoute
    /\ \E cfg \in [onSuccess : Hook, onError : Hook] :
          hook = [mounted |-> TRUE, config |-> cfg, loading |-> FALSE,
                  error |-> Null, success |-> FALSE, pending |-> {},
                  settled |-> NoSettle]

\* send(options), up to the first await
Send(s) ==
    /\ s \notin hook.pending
    /\ hook' = [hook EXCEPT !.loading = TRUE, !.error = Null, !.success = FALSE,
                            !.pending = @ \cup {s}, !.settled = NoSettle]
    /\ UNCHANGED <<limiterVars, twin, route, client, promised, racing>>

\* send(options), from the response (ok: response.ok and result.success) or the
\* failure of the request to the end of the call
Settle(s, ok) ==
    LET cfg     == hook.config
        caught  == IF ~ok THEN "Failed to send notification"
                   ELSE IF cfg.onSuccess = "throws" THEN "onSuccess failed"
                   ELSE Null
        thrown  == IF caught # Null /\ cfg.onError = "throws"
                   THEN "onError failed" ELSE caught
    IN  /\ s \in hook.pending
        /\ hook' = [hook EXCEPT
                       !.success = IF ok THEN TRUE ELSE @,
                       !.error = IF caught # Null THEN caught ELSE @,
                       !.loading = FALSE,
                       !.pending = @ \ {s},
                       !.settled =
                           [send |-> s, ok |-> ok,
                            outcome |-> IF thrown # Null THEN "rejected"
                                                         ELSE "resolved",
                            thrown |-> thrown,
                            onSuccess |-> IF ok /\ cfg.onSuccess # "absent"
                                          THEN 1 ELSE 0,
                            onError |-> IF caught # Null /\ cfg.onError # "absent"
                                        THEN 1 ELSE 0]]
        /\ UNCHANGED <<limiterVars, twin, route, client, promised, racing>>

\* reset()
ResetState ==
    /\ hook' = [hook EXCEPT !.loading = FALSE, !.error = Null, !.success = FALSE,
                            !.settled = NoSettle]
    /\ UNCHANGED <<limiterVars, twin, route, client, promised, racing>>

NextNotify ==
    \/ \E s \in Sends : Send(s)
    \/ \E s \in Sends, ok \in BOOLEAN : Settle(s, ok)
    \/ ResetState

SpecNotify == InitNotify /\ [][NextNotify]_vars

\* ---------------------------------------------------------------- claims

\* The entry of key k is the same before and after the step (present or absent).
EntryUnchanged(k) ==
    /\ (k \in DOMAIN store') = (k \in DOMAIN store)
    /\ k \in DOMAIN store => store'[k] = store[k]

\* C1: from a key without entry and with no time passing, a limiter with
\* maxRequests = N admits exactly the first N checks of the key and denies every
\* later one: after c such calls, min(c, N) were admitted.
C1_FirstNAdmitted ==
    \A k \in Keys :
        (burst[k].active /\ burst[k].origin = "fresh") =>
            burst[k].admits = Min(burst[k].calls, config.maxRequests)

\* A burst of more than maxRequests = 2 calls on a fresh key, two of them admitted.
C1_Witness ==
    \E k \in Keys :
        /\ burst[k].active /\ burst[k].origin = "fresh"
        /\ config.maxRequests = 2
        /\ burst[k].calls > config.maxRequests
        /\ burst[k].admits = config.maxRequests
        /\ last.op = "check" /\ ~last.result.allowed

\* C2: at every instant and for every key, at most maxRequests of the checks
\* admitted for the key (since it was last reset or the limiter destroyed) have an
\* admission time t with now - windowMs < t <= now, whatever checks, getUsage
\* calls and cleanup passes were interleaved.
C2_SlidingWindowBound ==
    \A k \in Keys : CountInWindow(admitted[k], now) <= config.maxRequests

\* A window filled by admissions of two different instants, after a cleanup pass.
C2_Witness ==
    \E k \in Keys :
        /\ CountInWindow(admitted[k], now) = config.maxRequests
        /\ Len(admitted[k]) = 2
        /\ admitted[k][1].t < admitted[k][2].t
        /\ cleanupDue > CleanupIntervalMs
        /\ timerActive

\* C3 as stated: once maxRequests checks of a key were admitted at an instant t0,
\* and with no reset since, every check of the key made later than t0 + windowMs
\* is admitted.
C3_AnyLaterCheckAdmitted ==
    [][\A id \in Identifiers :
          (/\ Check(id)
           /\ \E t0 \in full[SpecKey(id)] : now > t0 + config.windowMs)
              => last'.result.allowed]_vars

\* C3 amended: once maxRequests checks of a key were admitted at an instant t0,
\* and with no reset and no admitted check of the key since, a check of the key
\* made later than t0 + windowMs is admitted.
C3_WindowRecovery ==
    [][\A id \in Identifiers :
          (/\ Check(id)
           /\ \E t0 \in full[SpecKey(id)] :
                 /\ now > t0 + config.windowMs
                 /\ \A i \in 1..Len(admitted[SpecKey(id)]) :
                       admitted[SpecKey(id)][i].t <= t0)
              => last'.result.allowed]_vars

\* The first check after an exhausted window has passed, just admitted.
C3_Witness ==
    /\ last.op = "check" /\ last.result.allowed
    /\ config.maxRequests = 2
    /\ \E t0 \in full[SpecKey(last.id)] : now > t0 + config.windowMs
    /\ admitted[SpecKey(last.id)] = <<Admission(now, last.id)>>
    /\ SpecKey(last.id) \in DOMAIN store
    /\ store[SpecKey(last.id)].count = 3

\* C4: under perIP a check of key A leaves the entry of every other key as it
\* was, and it is admitted exactly when fewer than maxRequests checks of A were
\* admitted in the current window: the calls made for other keys play no part.
C4_PerKeyIndependence ==
    [][config.perIP =>
          \A id \in Identifiers :
              Check(id) =>
                  /\ \A k \in Keys \ {id} : EntryUnchanged(k)
                  /\ last'.result.allowed =
                        (CountInWindow(admitted[id], now) < config.maxRequests)]_vars

\* Key ip1 is exhausted and a check of ip2 was just admitted.
C4_Witness ==
    /\ config.perIP
    /\ last.op = "check" /\ last.id = "ip2" /\ last.result.allowed
    /\ CountAt(admitted["ip1"], now) = config.maxRequests
    /\ burst["ip1"].active /\ burst["ip1"].calls > config.maxRequests
    /\ CountAt(admitted["ip2"], now) = 1

\* C5: without perIP every call works on the key 'global' whatever its
\* identifier: a check is stored under 'global' and is denied once maxRequests
\* checks, of any identifiers, were admitted in the window; getUsage counts the
\* admissions of all identifiers; reset empties the store.
C5_GlobalCollapsing ==
    [][~config.perIP =>
          \A id \in Identifiers :
              /\ Check(id) =>
                    /\ DOMAIN store' = {"global"}
                    /\ CountInWindow(admitted["global"], now) >= config.maxRequests
                          => ~last'.result.allowed
              /\ GetUsage(id) =>
                    last'.result.count = CountInWindow(admitted["global"], now)
              /\ Reset(id) => DOMAIN store' = {}]_vars

\* One admission under each identifier filled the window; the next check is denied.
C5_Witness ==
    /\ ~config.perIP
    /\ config.maxRequests = 2
    /\ last.op = "check" /\ ~last.result.allowed
    /\ Len(admitted["global"]) = 2
    /\ admitted["global"][1].id # admitted["global"][2].id

\* C6: an admitted check returns no retryAfter; a denied check returns an integer
\* retryAfter with 1 <= retryAfter <= ceil(windowMs / 1000).
C6_RetryAfterRange ==
    last.op = "check" =>
        /\ last.result.allowed => DOMAIN last.result = {"allowed"}
        /\ ~last.result.allowed =>
              /\ DOMAIN last.result = {"allowed", "retryAfter"}
              /\ last.result.retryAfter \in Int
              /\ 1 <= last.result.retryAfter
              /\ last.result.retryAfter * MsPerSecond < config.windowMs + MsPerSecond

\* A denial half a second into a one-second window: 500 ms left, rounded up to 1.
C6_Witness ==
    /\ last.op = "check" /\ ~last.result.allowed
    /\ config.windowMs = 1000
    /\ now = 500
    /\ store[SpecKey(last.id)].requests[1] = 0
    /\ last.result.retryAfter = 1

\* C7: a denied check records nothing: the non-expired timestamps stored for the
\* key, and the count of the entry, are the same before and after the call.
C7_DenialRecordsNothing ==
    [][\A id \in Identifiers :
          (Check(id) /\ ~last'.result.allowed) =>
              /\ SpecKey(id) \in DOMAIN store
              /\ SpecKey(id) \in DOMAIN store'
              /\ NonExpired(store'[SpecKey(id)].requests, now)
                    = NonExpired(store[SpecKey(id)].requests, now)
              /\ store'[SpecKey(id)].count = store[SpecKey(id)].count]_vars

\* Two denied checks in a row on an exhausted key.
C7_Witness ==
    /\ last.op = "check" /\ ~last.result.allowed
    /\ burst[SpecKey(last.id)].active
    /\ burst[SpecKey(last.id)].calls >= burst[SpecKey(last.id)].admits + 2
    /\ Len(store[SpecKey(last.id)].requests) = config.maxRequests

\* C8: after reset of an exhausted key the next maxRequests checks of the key at
\* that instant are all admitted; reset is always possible, leaves the key
\* without entry, and changes nothing when the key has no entry (so a second
\* reset changes nothing).
C8_ResetRestoresCapacity ==
    /\ [](\A k \in Keys :
             (burst[k].active /\ burst[k].origin = "reset"
                  /\ burst[k].calls <= config.maxRequests)
                 => burst[k].admits = burst[k].calls)
    /\ [](\A id \in Identifiers : ENABLED Reset(id))
    /\ [][\A id \in Identifiers :
             Reset(id) =>
                 /\ SpecKey(id) \notin DOMAIN store'
                 /\ SpecKey(id) \notin DOMAIN store => store' = store]_vars

\* An exhausted key was reset and maxRequests = 2 further checks were admitted.
C8_Witness ==
    \E k \in Keys :
        /\ burst[k].active /\ burst[k].origin = "reset"
        /\ config.maxRequests = 2
        /\ burst[k].calls = 2 /\ burst[k].admits = 2
        /\ last.op = "check" /\ last.result.allowed

\* C9: under perIP reset(A) leaves the entry of every other key as it was, and a
\* key that is exhausted is still denied after the reset of another key.
C9_ResetOnlyItsKey ==
    /\ [][config.perIP =>
             \A id \in Identifiers :
                 Reset(id) => \A k \in Keys \ {id} : EntryUnchanged(k)]_vars
    /\ []((config.perIP /\ last.op = "reset") =>
             \A id \in Identifiers \ {last.id} :
                 CountInWindow(admitted[id], now) >= config.maxRequests
                     => ~CheckOutcome(id, now).result.allowed)

\* ip1 was just reset while ip2 is exhausted and still has its entry.
C9_Witness ==
    /\ config.perIP
    /\ last.op = "reset" /\ last.id = "ip1"
    /\ burst["ip1"].active /\ burst["ip1"].origin = "reset"
    /\ CountInWindow(admitted["ip2"], now) = config.maxRequests
    /\ "ip2" \in DOMAIN store
    /\ "ip1" \notin DOMAIN store

\* C10: getUsage of a key without entry returns count 0, limit maxRequests and
\* resetAt now + windowMs.
C10_UsageOfUnknownKey ==
    (last.op = "getUsage" /\ SpecKey(last.id) \notin DOMAIN store) =>
        last.result = [count |-> 0, limit |-> config.maxRequests,
                       resetAt |-> now + config.windowMs]

\* getUsage of a key that was exhausted and then purged by a cleanup pass.
C10_Witness ==
    /\ last.op = "getUsage"
    /\ SpecKey(last.id) \notin DOMAIN store
    /\ full[SpecKey(last.id)] # {}
    /\ now > 0

\* C11: getUsage of a key that has an entry returns as count the number of the
\* key's admitted checks whose time lies in the window (now - windowMs, now],
\* and 0 <= count <= limit = maxRequests.
C11_UsageCountsWindow ==
    (last.op = "getUsage" /\ SpecKey(last.id) \in DOMAIN store) =>
        /\ last.result.count = CountInWindow(admitted[SpecKey(last.id)], now)
        /\ last.result.limit = config.maxRequests
        /\ 0 <= last.result.count
        /\ last.result.count <= last.result.limit

\* getUsage of a key with more admissions in its entry's lifetime than lie in the
\* window now: only the latter are counted.
C11_Witness ==
    /\ last.op = "getUsage"
    /\ SpecKey(last.id) \in DOMAIN store
    /\ last.result.count >= 1
    /\ last.result.count < store[SpecKey(last.id)].count

\* C12: getUsage is a read-only query: it creates no entry, removes or rewrites
\* no stored timestamp, leaves config and the cleanup interval alone, and so
\* every check, getUsage, reset and cleanup made after it gives what it would
\* have given without it.
C12_UsageReadOnly ==
    [][\A id \in Identifiers :
          GetUsage(id) =>
              /\ store' = store
              /\ config' = config
              /\ timerActive' = timerActive
              /\ cleanupDue' = cleanupDue
              /\ \A other \in Identifiers :
                    /\ CheckOutcome(other, now)' = CheckOutcome(other, now)
                    /\ UsageOutcome(other, now)' = UsageOutcome(other, now)
                    /\ ResetOutcome(other)' = ResetOutcome(other)
              /\ CleanupOutcome(now)' = CleanupOutcome(now)]_vars

\* getUsage answered 0 for a key whose entry still holds a request that has
\* left the window, while another key has never been seen.
C12_Witness ==
    /\ last.op = "getUsage"
    /\ SpecKey(last.id) \in DOMAIN store
    /\ last.result.count = 0
    /\ Len(store[SpecKey(last.id)].requests) > 0
    /\ \E id \in Identifiers : SpecKey(id) \notin DOMAIN store

\* C13: the resetAt getUsage returns is later than the current time, whether the
\* key has an entry or not.  (Refuted: an entry keeps the resetAt it was created
\* with, and the entry outlives it.)
C13_ResetAtInFuture ==
    last.op = "getUsage" => last.result.resetAt > now

\* C14: when every timestamp stored for a key has left the window (is windowMs
\* old or older), a cleanup pass removes the key from the store, and getUsage of
\* it then returns what it returns for a key never seen: count 0, limit
\* maxRequests, resetAt now + windowMs.
C14_CleanupPurgesAgedKey ==
    [][Cleanup =>
          \A id \in Identifiers :
              (/\ SpecKey(id) \in DOMAIN store
               /\ NonExpired(store[SpecKey(id)].requests, now) = <<>>) =>
                  /\ SpecKey(id) \notin DOMAIN store'
                  /\ UsageOutcome(id, now)' =
                        [count |-> 0, limit |-> config.maxRequests,
                         resetAt |-> now + config.windowMs]]_vars

\* A cleanup pass has just purged a key that had been exhausted.
C14_Witness ==
    /\ last = NoCall
    /\ timerActive
    /\ cleanupDue = now + CleanupIntervalMs
    /\ \E k \in Keys : full[k] # {} /\ k \notin DOMAIN store

\* C16: the limiter's cleanup interval is armed at construction with a period of
\* 60000 ms whatever windowMs is: a pass runs only while it is armed and not
\* before a full period has gone by since construction or the pass before.
\* destroy disarms it and nothing arms it again, so from then on no pass runs and
\* an entry leaves the store only by reset or by another destroy.
C16_TimerLifecycle ==
    /\ (timerActive = TRUE /\ cleanupDue = now + CleanupIntervalMs)
    /\ [][/\ Cleanup => /\ timerActive
                        /\ now >= cleanupDue
                        /\ cleanupDue' = now + CleanupIntervalMs
          /\ ~Cleanup => cleanupDue' = cleanupDue
          /\ Destroy => ~timerActive'
          /\ ~timerActive => ~timerActive'
          /\ (~timerActive /\ \E k \in DOMAIN store : k \notin DOMAIN store') =>
                (Destroy \/ \E id \in Identifiers : Reset(id))]_vars

\* A destroyed limiter holds, past the time the next cleanup pass was due, an
\* entry (made by a check after destroy) whose requests have all left the window.
C16_Witness ==
    /\ ~timerActive
    /\ now >= cleanupDue
    /\ \E k \in DOMAIN store : NonExpired(store[k].requests, now) = <<>>

\* C17: in every reachable state, destroyed or not, and for every key, the empty
\* string and keys never seen included, check returns {allowed: true} or
\* {allowed: false, retryAfter} with a positive retryAfter (exhaustion is a
\* value, not an error), getUsage returns numbers, and reset and destroy
\* complete.
C17_CallsReturnValues ==
    /\ \A id \in Identifiers \cup {""} :
          LET c == CheckOutcome(id, now).result
              u == UsageOutcome(id, now)
          IN  /\ "allowed" \in DOMAIN c
              /\ c.allowed \in BOOLEAN
              /\ c.allowed => DOMAIN c = {"allowed"}
              /\ ~c.allowed => /\ DOMAIN c = {"allowed", "retryAfter"}
                               /\ c.retryAfter \in Nat \ {0}
              /\ DOMAIN u = {"count", "limit", "resetAt"}
              /\ u.count \in Nat /\ u.limit \in Nat /\ u.resetAt \in Nat
              /\ DOMAIN ResetOutcome(id) = DOMAIN store \ {KeyOf(id)}
    /\ \A id \in Identifiers : ENABLED Reset(id) /\ ENABLED GetUsage(id)
    /\ ENABLED Destroy

\* A destroyed limiter has just denied a check, with a retryAfter.
C17_Witness ==
    /\ ~timerActive
    /\ last.op = "check"
    /\ ~last.result.allowed
    /\ last.result.retryAfter >= 1

\* The answers of the destroyed limiter and of the one constructed at its
\* destruction, to the call both were given last.
SameAnswer == last = twin.last

\* The same, leaving aside the resetAt of a getUsage.
SameAnswerButResetAt ==
    /\ last.op = twin.last.op
    /\ last.id = twin.last.id
    /\ IF last.op = "getUsage"
       THEN /\ last.result.count = twin.last.result.count
            /\ last.result.limit = twin.last.result.limit
            /\ last.result.resetAt <= twin.last.result.resetAt
       ELSE last.result = twin.last.result

\* destroy clears the store, and destroy on a limiter just destroyed changes
\* nothing of it.
DestroyClears ==
    Destroy =>
        /\ store' = [k \in {} |-> 0]
        /\ (~timerActive /\ DOMAIN store = {}) =>
              (store' = store /\ timerActive' = timerActive /\ config' = config)

C18_DenialResponses ==
    route.serving =>
        \A i \in DOMAIN route.calls :
            ~route.calls[i].result.allowed =>
                /\ route.response.status =
                      IF route.limiters[route.calls[i].limiter].config.perIP
                      THEN 429 ELSE 503
                /\ "Retry-After" \in DOMAIN route.response.headers
                /\ route.response.headers["Retry-After"] =
                      NumberToString(route.calls[i].result.retryAfter)
                /\ ~route.sent
                /\ ~route.response.success

\* A 429 whose Retry-After is not the fallback: the window began before now.
C18_Witness ==
    /\ route.serving
    /\ route.response.status = 429
    /\ Len(route.calls) = 1
    /\ ~route.calls[1].result.allowed
    /\ route.calls[1].result.retryAfter # IpRetryAfterFallback

\* The global limiter has denied a request the per-IP limiter admitted.
C18_GlobalDenied ==
    /\ route.serving
    /\ route.response.status = 503
    /\ Len(route.calls) = 2
    /\ ~route.calls[2].result.allowed

\* C19: the handler made with rateLimit: false calls check on no limiter and
\* answers neither 429 nor 503, whatever the process has served before.
\* (Refuted: it falls back to the module's limiters once they exist.)
C19_OpenNeverLimits ==
    [][\A request \in Requests :
          Route("open", request) =>
              /\ route'.calls = <<>>
              /\ route'.response.status \notin {429, 503}]_vars

\* C20: the rate-limited handlers of the process together call
\* sendTelegramNotification at most 30 times in a one-second window.
\* (Refuted: the handler made with a rateLimit object has a global limiter of
\* its own.)
C20_ProcessCeiling ==
    route.serving => route.sends <= GlobalMaxRequests

\* The number of requests of the client recorded by the limiter that are in
\* the window at time t.
InWindowCount(limiter, ip, t) ==
    IF ip \in DOMAIN limiter.store
    THEN Cardinality({i \in DOMAIN limiter.store[ip].requests :
                         limiter.store[ip].requests[i] > t - limiter.config.windowMs})
    ELSE 0

\* The response carries header x with the decimal digits of n.
Says(response, x, n) ==
    /\ x \in DOMAIN response.headers
    /\ response.headers[x] = NumberToString(n)

\* On a 429 of a rate-limited handler, X-RateLimit-Limit is the maxRequests of
\* the limiter that denied and X-RateLimit-Remaining is 0.
LimitHeadersOn429 ==
    \A h \in RateLimited, request \in InFlightRequests :
        Begin(h, request) /\ route'.response.status = 429 =>
            /\ Says(route'.response, "X-RateLimit-Limit",
                    route'.limiters[route'.calls[1].limiter].config.maxRequests)
            /\ Says(route'.response, "X-RateLimit-Remaining", 0)

\* On a success response of a rate-limited handler, X-RateLimit-Limit is the
\* maxRequests of its per-IP limiter and X-RateLimit-Remaining is maxRequests
\* minus the client's count in the window when the response is made, a number
\* from 0 to maxRequests.
LimitHeadersOnSuccess ==
    \A p \in BagToSet(route.inflight) :
        Finish(p) /\ route'.response.success =>
            LET limiter == route'.limiters[p.ipLimiter]
                remaining == limiter.config.maxRequests
                                 - InWindowCount(limiter, p.request.ip, now)
            IN  /\ Says(route'.response, "X-RateLimit-Limit", limiter.config.maxRequests)
                /\ remaining \in 0..limiter.config.maxRequests
                /\ Says(route'.response, "X-RateLimit-Remaining", remaining)

\* C21 (as stated): every response of a rate-limited handler carries
\* X-RateLimit-Limit with the per-IP maxRequests in force; on a 429
\* X-RateLimit-Remaining is 0 and on a success it is maxRequests minus the
\* client's in-window count at response time, between 0 and maxRequests, under
\* any interleaving of requests.  (Refuted: the 503, 400 and 500 responses carry
\* no X-RateLimit-Limit.)
C21_LimitHeadersOnEveryResponse ==
    [][/\ LimitHeadersOn429
       /\ LimitHeadersOnSuccess
       /\ \A h \in RateLimited, request \in InFlightRequests :
              Begin(h, request) /\ route'.response.status # 0 =>
                  Says(route'.response, "X-RateLimit-Limit",
                       route'.limiters[route'.calls[1].limiter].config.maxRequests)
       /\ \A p \in BagToSet(route.inflight) :
              Finish(p) =>
                  Says(route'.response, "X-RateLimit-Limit",
                       route'.limiters[p.ipLimiter].config.maxRequests)]_vars

\* C21 (amended): on every 429 and every success response of a rate-limited
\* handler X-RateLimit-Limit is the per-IP maxRequests in force; on a 429
\* X-RateLimit-Remaining is 0 and on a success it is maxRequests minus the
\* client's in-window count at response time, between 0 and maxRequests, under
\* any interleaving of requests.
C21_LimitHeadersOn429AndSuccess ==
    [][LimitHeadersOn429 /\ LimitHeadersOnSuccess]_vars

\* A success response of a handler on the default limiter that says 0
\* remaining, given while another request is in flight.
C21_Witness ==
    /\ route.serving
    /\ route.by \in RateLimited
    /\ route.response.success
    /\ route.calls[1].limiter = "defaultIp"
    /\ Says(route.response, "X-RateLimit-Remaining", 0)
    /\ route.inflight # EmptyBag

\* C22: after a 429, the next request of the same client, made at the time
\* X-RateLimit-Reset gives and checked by the same per-IP limiter, is admitted
\* by it.  (Refuted: on a 429 the header is Date.now() of the denial.)
C22_AdmittedAtResetTime ==
    [][\A request \in Requests :
          /\ Post(request) \/ \E h \in Routes : Route(h, request)
          /\ route.response.status = 429
          /\ route.calls[1].identifier = request.ip
          /\ Says(route.response, "X-RateLimit-Reset", now)
          /\ route'.calls # <<>>
          /\ route'.calls[1].limiter = route.calls[1].limiter
          => route'.calls[1].result.allowed]_vars

\* The places of the trace where name was called.
CallsOf(name) == {i \in DOMAIN route.trace : route.trace[i].call = name}

\* The handler has answered a request.
HasAnswered == route.serving /\ "options" \in DOMAIN route /\ route.served > 0

\* The request answered carries an Origin header that the CORS config of the
\* handler (one whose origin is not '*') does not allow.
OriginRefused ==
    /\ route.options.cors = "origin"
    /\ route.request.origin \notin {NoOrigin, AllowedOrigin}

\* A request whose origin is refused reaches neither onBeforeSend nor
\* sendTelegramNotification.
RefusedNeverSent ==
    OriginRefused =>
        CallsOf("onBeforeSend") = {} /\ CallsOf("sendTelegramNotification") = {}

\* With cors: false no response is a 403 and none has
\* Access-Control-Allow-Origin.
NoCorsWhenDisabled ==
    route.options.cors = "false" =>
        /\ route.response.status # 403
        /\ "Access-Control-Allow-Origin" \notin DOMAIN route.response.headers

\* C23 (as stated): with a CORS config whose origin is not '*', a request with
\* an Origin that is not allowed is answered 403 'Origin not allowed' and
\* reaches neither onBeforeSend nor sendTelegramNotification; with cors: false
\* there is no origin check and no Access-Control-Allow-Origin.  (Refuted: the
\* preflight and the rate-limit checks come before the origin check.)
C23_RefusedOriginGets403 ==
    HasAnswered =>
        /\ RefusedNeverSent
        /\ NoCorsWhenDisabled
        /\ OriginRefused =>
              /\ route.response.status = 403
              /\ route.response.error = "Origin not allowed"

\* C23 (amended): such a request reaches neither onBeforeSend nor
\* sendTelegramNotification; it is answered 204 if its method is OPTIONS, 429 or
\* 503 if a rate-limit check denies it, and 403 'Origin not allowed' otherwise;
\* with cors: false there is no origin check and no Access-Control-Allow-Origin.
C23_RefusedOriginNeverSent ==
    HasAnswered =>
        /\ RefusedNeverSent
        /\ NoCorsWhenDisabled
        /\ OriginRefused =>
              IF route.request.method = "OPTIONS"
              THEN route.response.status = 204
              ELSE IF \E i \in DOMAIN route.calls : ~route.calls[i].result.allowed
              THEN route.response.status \in {429, 503}
              ELSE /\ route.response.status = 403
                   /\ route.response.error = "Origin not allowed"

\* A request with a message and a refused origin, to a handler with an
\* onBeforeSend hook, passed the rate-limit checks and was answered 403.
C23_Witness ==
    /\ HasAnswered
    /\ OriginRefused
    /\ route.request.body = "message"
    /\ route.options.onBeforeSend # "absent"
    /\ Len(route.calls) = 2
    /\ route.response.status = 403

Is4xx(outcome) == outcome.kind = "api" /\ outcome.code \in 400..499

\* What holds of the makeRequest in progress or ended last: at most 3 fetches;
\* no fetch follows a result or a 4xx error; it returns the result of its last
\* fetch, or throws the error of its last fetch, a 4xx or the third; k delays
\* precede attempt k + 1, the k-th of 2^k seconds, and none follows the last.
RequestSound ==
    LET r == client.request
        n == Len(r.outcomes)
    IN  /\ n <= MaxRetries
        /\ \A i \in 1..(n - 1) :
              r.outcomes[i].kind # "result" /\ ~Is4xx(r.outcomes[i])
        /\ r.state = "returned" =>
              r.outcomes[n].kind = "result" /\ r.returned = <<n>>
        /\ r.state = "thrown" =>
              /\ r.outcomes[n].kind # "result"
              /\ r.thrown = <<ErrorOf(r.outcomes[n], n)>>
              /\ Is4xx(r.outcomes[n]) \/ n = MaxRetries
        /\ (n > 0 /\ Is4xx(r.outcomes[n])) => r.state = "thrown"
        /\ \A k \in DOMAIN r.waits : r.waits[k] = (2 ^ k) * 1000
        /\ Len(r.waits) = IF client.pc = "fetch" THEN n ELSE n - 1
        /\ Len(r.waits) <= MaxRetries - 1

\* C26: makeRequest makes at most 3 fetch attempts and ends, returning the
\* first result or throwing the last error; a Telegram error with error_code
\* in 400..499 is thrown after its attempt without retry; the wait before
\* attempt k + 1 is 2^k seconds and no wait follows the third attempt.
C26_BoundedRetry ==
    /\ [](client.pc \notin {"idle"} /\ client.envOk => RequestSound)
    /\ (client.pc = "fetch") ~> (client.pc \in {"returned", "done"})

\* makeRequest threw after three attempts and delays of 2 s and 4 s.
C26_Witness ==
    /\ client.pc = "done"
    /\ client.envOk
    /\ client.request.state = "thrown"
    /\ Len(client.request.outcomes) = MaxRetries
    /\ client.request.waits = <<2000, 4000>>

\* The calls sendTelegramNotification is to make in all: one sendDocument per
\* file, in list order, with the message as caption, or one sendMessage.
ExpectedCalls ==
    IF client.files.given /\ Len(client.files.list) > 0
    THEN [i \in 1..Len(client.files.list) |->
             [method |-> "sendDocument", file |-> client.files.list[i],
              text |-> client.message]]
    ELSE <<[method |-> "sendMessage", file |-> "", text |-> client.message]>>

\* C27: sendTelegramNotification with a non-empty files list calls sendDocument
\* once per file, in list order, with the message as caption, and never
\* sendMessage; without files or with an empty list it calls sendMessage once
\* and never sendDocument; an error of a call is the error it rejects with, and
\* after a failing call no further call is made.
C27_OneCallPerFile ==
    client.pc # "idle" /\ client.envOk =>
        /\ Len(client.calls) <= Len(ExpectedCalls)
        /\ \A i \in DOMAIN client.calls : client.calls[i] = ExpectedCalls[i]
        /\ client.settled = "resolved" => client.calls = ExpectedCalls
        /\ client.request.state = "thrown" =>
              /\ client.settled = "rejected"
              /\ client.error = client.request.thrown
              /\ client.pc = "done"
        /\ client.settled = "rejected" => client.request.state = "thrown"

\* The first sendDocument of two failed and the second file was not sent.
C27_Witness ==
    /\ client.pc = "done"
    /\ client.envOk
    /\ client.files.given
    /\ Len(client.files.list) = 2
    /\ client.settled = "rejected"
    /\ Len(client.calls) = 1

\* The number of timestamps t stored for key k with t > now - windowMs.
StoredInWindow(k) ==
    IF k \in DOMAIN store
    THEN Cardinality({i \in DOMAIN store[k].requests :
                         store[k].requests[i] > now - config.windowMs})
    ELSE 0

\* C28: a check for key k at time now is admitted if and only if fewer than
\* maxRequests timestamps t stored for k satisfy t > now - windowMs; a key that
\* was exhausted by maxRequests admissions at t0, and has had none since, is
\* denied at every time before t0 + windowMs and admitted at t0 + windowMs.
C28_AdmissionRule ==
    [][\A id \in Identifiers :
          Check(id) =>
              /\ last'.result.allowed <=>
                     StoredInWindow(SpecKey(id)) < config.maxRequests
              /\ \A t0 \in full[SpecKey(id)] :
                     (\A i \in DOMAIN admitted[SpecKey(id)] :
                          admitted[SpecKey(id)][i].t <= t0)
                     => (last'.result.allowed <=> now >= t0 + config.windowMs)]_vars

\* A key exhausted at t0 has just been admitted again, at t0 + windowMs exactly.
C28_Witness ==
    /\ last.op = "check"
    /\ last.result.allowed
    /\ config.maxRequests = 2
    /\ full[SpecKey(last.id)] = {now - config.windowMs}
    /\ admitted[SpecKey(last.id)] = <<Admission(now, last.id)>>

\* Every timestamp of the entry of key k in the store st is in the window that
\* ends now.
AllInWindow(st, k) ==
    \A i \in DOMAIN st[k].requests : st[k].requests[i] > now - config.windowMs

\* The timestamps of every entry are in non-decreasing order.
Chronological ==
    \A k \in DOMAIN store :
        \A i, j \in DOMAIN store[k].requests :
            i < j => store[k].requests[i] <= store[k].requests[j]

\* C29: right after a check on a key every timestamp stored for it, and right
\* after a cleanup pass every timestamp of every key still stored, satisfies
\* t > now - windowMs; and in every state the timestamps of each entry are in
\* non-decreasing order.
C29_EntryInvariant ==
    /\ []Chronological
    /\ [][/\ \A id \in Identifiers :
                Check(id) =>
                    /\ SpecKey(id) \in DOMAIN store'
                    /\ AllInWindow(store', SpecKey(id))
          /\ Cleanup => \A k \in DOMAIN store' : AllInWindow(store', k)]_vars

\* A cleanup pass has just left an entry with two timestamps of different
\* instants, the older first.
C29_Witness ==
    /\ last = NoCall
    /\ timerActive
    /\ cleanupDue = now + CleanupIntervalMs
    /\ \E k \in DOMAIN store :
          /\ Len(store[k].requests) = 2
          /\ store[k].requests[1] < store[k].requests[2]
          /\ store[k].requests[1] > now - config.windowMs

\* C30: when a check on a key was denied at some time with retryAfter r and no
\* check on the key has been admitted since, a check on the key made at that
\* time + r * 1000 ms or later is admitted.
C30_RetryAfterSufficient ==
    [][\A id \in Identifiers :
          CheckRecorded(id) =>
              \A due \in promised[SpecKey(id)].due :
                  now >= due => last'.result.allowed]_vars

\* A key denied earlier has just been admitted at exactly the instant its denial
\* announced, no time to spare.
C30_Witness ==
    /\ last.op = "check"
    /\ last.result.allowed
    /\ promised[SpecKey(last.id)].redeemed
    /\ now > 0
    /\ \E i \in DOMAIN store[KeyOf(last.id)].requests :
          store[KeyOf(last.id)].requests[i] = now
    /\ admitted[SpecKey(last.id)] = <<Admission(now, last.id)>>
    /\ config.maxRequests = 1
    /\ now = config.windowMs

\* The key has an entry none of whose timestamps lies in the window ending now.
Expired(k) ==
    /\ k \in DOMAIN store
    /\ \A i \in DOMAIN store[k].requests : store[k].requests[i] <= now - config.windowMs

\* C31: with the interval never cleared and its callbacks run when due, a key
\* whose timestamps are all older than windowMs is deleted by the next cleanup
\* pass unless it is checked again first; a cleanup pass deletes exactly the
\* keys that have no timestamp t > now - windowMs, never another.
C31_ExpiredKeysRemoved ==
    /\ [][CleanupFires =>
             \A k \in DOMAIN store : k \notin DOMAIN store' <=> Expired(k)]_vars
    /\ \A k \in Keys :
          (Expired(k) /\ now >= cleanupDue) ~> (k \notin DOMAIN store \/ ~Expired(k))

\* A cleanup pass has just deleted a key that had been exhausted and kept another
\* that was checked within the window.
C31_Witness ==
    /\ last = NoCall
    /\ timerActive
    /\ cleanupDue = now + CleanupIntervalMs
    /\ \E k \in Keys : k \notin DOMAIN store /\ full[k] # {}
    /\ \E k \in DOMAIN store : ~Expired(k)

\* C32: a limiter whose cleanup passes run at arbitrary points gives every check
\* the same allowed/retryAfter result, and every getUsage the same count, as a
\* limiter given the same calls at the same times on which cleanup never runs.
C32_CleanupInvisible ==
    /\ last.op = twin.last.op
    /\ last.op = "check" => last.result = twin.last.result
    /\ last.op = "getUsage" => last.result.count = twin.last.result.count

\* A check has just been answered alike by both limiters although a cleanup
\* pass had deleted the key's entry in the first only: the first re-created it.
C32_Witness ==
    /\ last.op = "check"
    /\ ~last.result.allowed
    /\ twin.last.result = last.result
    /\ store[KeyOf(last.id)].resetAt > twin.store[KeyOf(last.id)].resetAt

\* How many admitted checks of key k were made in the window that ends at e.
AdmittedInWindow(k, e) ==
    Cardinality({i \in DOMAIN admitted[k] :
                    e - config.windowMs < admitted[k][i].t /\ admitted[k][i].t <= e})

\* The ends of the windows worth counting: now, and the instant of every
\* admitted check.
WindowEnds(k) == {now} \cup {admitted[k][i].t : i \in DOMAIN admitted[k]}

\* No window holds more admitted checks of a key than maxRequests, plus one for
\* every caller but the first of the most that were inside check() together.
OverAdmissionBounded ==
    \A k \in Keys : \A e \in WindowEnds(k) :
        AdmittedInWindow(k, e) <=
            config.maxRequests + (IF racing.peak > 1 THEN racing.peak - 1 ELSE 0)

\* C33 as stated: as long as every check ran to completion before the next
\* began, no window holds more than maxRequests admitted checks of a key; when
\* the read/filter, compare and append steps of up to n callers interleave, a
\* window holds at most maxRequests + (n - 1) of them.
C33_OverAdmissionBound == OverAdmissionBounded

\* C33, amended: the bound holds as long as no caller was inside check() while
\* the clock advanced.
C33_OverAdmissionBoundUnstalled == ~racing.stalled => OverAdmissionBounded

\* All callers read the same length before any of them pushed and all were
\* admitted: the window holds maxRequests + (callers - 1) admitted checks.
C33_Witness ==
    /\ racing.peak = Cardinality(Callers)
    /\ ~racing.stalled
    /\ \A c \in Callers : racing.calls[c] = Outside
    /\ last.op = "check"
    /\ last.result.allowed
    /\ now > 0
    /\ AdmittedInWindow(SpecKey(last.id), now) =
           config.maxRequests + Cardinality(Callers) - 1
\* C34: an entry's resetAt is its creation time + windowMs; no call and no
\* cleanup pass that keeps the entry changes it, and getUsage of a key that has
\* an entry returns it, so that getUsage returns another resetAt for the key
\* only once the entry has been deleted.
C34_ResetAtFixed ==
    [][/\ \A k \in Keys :
             /\ k \in DOMAIN store /\ k \in DOMAIN store'
                    => store'[k].resetAt = store[k].resetAt
             /\ k \notin DOMAIN store /\ k \in DOMAIN store'
                    => store'[k].resetAt = now + config.windowMs
       /\ last'.op = "getUsage" /\ KeyOf(last'.id) \in DOMAIN store
             => last'.result.resetAt = store[KeyOf(last'.id)].resetAt]_vars

\* getUsage has just returned the resetAt of an entry that was created before
\* the last cleanup pass, was kept by it and has been checked since.
C34_Witness ==
    /\ last.op = "getUsage"
    /\ KeyOf(last.id) \in DOMAIN store
    /\ last.result.resetAt = store[KeyOf(last.id)].resetAt
    /\ cleanupDue > CleanupIntervalMs
    /\ last.result.resetAt - config.windowMs < cleanupDue - CleanupIntervalMs
    /\ Len(store[KeyOf(last.id)].requests) = 2
    /\ store[KeyOf(last.id)].requests[2] = now

\* The slots of the key in use on the limiter called name of the process rt.
SlotsUsed(rt, name, key) ==
    IF key \in DOMAIN rt.limiters[name].store
    THEN Len(rt.limiters[name].store[key].requests)
    ELSE 0

\* What the step that served request shows of the order of the handler's stages.
PipelineOrder(request) ==
    LET response == route'.response
        calls    == route'.calls
        refused  == /\ route.options.cors = "origin"
                    /\ request.origin \notin {NoOrigin, AllowedOrigin}
        ipSlots(rt) == SlotsUsed(rt, "customIp", request.ip)
        globalSlots(rt) == SlotsUsed(rt, "customGlobal", "global")
    IN  IF route.options.cors # "false" /\ request.method = "OPTIONS"
        THEN /\ response.status = 204
             /\ calls = <<>>
             /\ route'.limiters = route.limiters
        ELSE /\ Len(calls) \in {1, 2}
             /\ calls[1].limiter = "customIp" /\ calls[1].identifier = request.ip
             /\ Len(calls) = 2 <=> calls[1].result.allowed
             /\ Len(calls) = 2 => calls[2].limiter = "customGlobal"
             /\ response.status = 429 <=> ~calls[1].result.allowed
             /\ response.status = 503 <=> Len(calls) = 2 /\ ~calls[2].result.allowed
             /\ Len(calls) = 2 /\ calls[2].result.allowed =>
                   /\ refused => response.status = 403
                   /\ ~refused /\ request.body = "empty" => response.status = 400
                   /\ ~refused /\ request.body = "invalid" => response.status = 500
             /\ response.status \in {503, 403, 400, 500} =>
                   ipSlots(route') = ipSlots(route) + 1
             /\ response.status = 429 =>
                   /\ globalSlots(route') = globalSlots(route)
                   /\ ipSlots(route') = ipSlots(route)

\* C35: in a rate-limited createTelegramRoute handler a CORS preflight is
\* answered 204 with no limiter consulted and no quota consumed; every other
\* request has the per-IP check first, then the global check, then origin
\* validation, then body validation, so that a request answered 503, 403, 400
\* or 500 has consumed one slot of its client's per-IP quota and a request
\* answered 429 has consumed no global slot.
C35_PipelineOrder ==
    [][route'.served = route.served + 1 => PipelineOrder(route'.request)]_vars

\* A request without a message and with a refused origin was admitted by the
\* per-IP limiter and then answered 503: the global limiter was full.
C35_Witness ==
    /\ HasAnswered
    /\ route.response.status = 503
    /\ route.request.body = "empty"
    /\ route.options.cors = "origin"
    /\ route.request.origin \notin {NoOrigin, AllowedOrigin}
    /\ Len(route.calls) = 2
    /\ SlotsUsed(route, "customIp", route.request.ip) = 1
    /\ SlotsUsed(route, "customGlobal", "global") = GlobalMaxRequests

\* The statuses of the responses a handler builds.
Statuses == {200, 204, 400, 403, 429, 500, 503}

\* C36: the handler returned by createTelegramRoute resolves with an HTTP
\* response for every request, whatever sendTelegramNotification and the
\* onBeforeSend, onAfterSend and onError hooks do, throwing included.
\* (Refuted: an onError hook that throws does so inside the catch block.)
C36_AlwaysResponds == HasAnswered => route.response.status \in Statuses

\* sendTelegramNotification was called for the request answered and returned.
SendCompleted == CallsOf("sendTelegramNotification") # {} /\ route.request.sendOk

\* C37: a response with success: false (status 4xx or 5xx) means that
\* sendTelegramNotification did not complete successfully for the request, and
\* a response with success: true that it did.  (Refuted: an onAfterSend hook
\* that throws turns a completed send into a 500.)
C37_FailureMeansNotSent ==
    HasAnswered =>
        /\ route.response.status >= 400 /\ ~route.response.success => ~SendCompleted
        /\ route.response.success => SendCompleted

\* C38: loading is true exactly while at least one call of send is under way,
\* also when calls overlap, and false whenever none is.  (Refuted: the first of
\* two overlapping calls to settle sets loading to false, and so does reset.)
C38_LoadingWhileInFlight == hook.loading <=> hook.pending # {}

\* C39: success = true and error # null never hold together; right after a send
\* settles exactly one of them is set: success = true with onSuccess called
\* once when the request succeeded, the error with onError called once and the
\* error thrown to the caller when it failed.  (Refuted: an onSuccess that
\* throws, and overlapping calls.)
C39_OutcomeExclusive ==
    /\ ~(hook.success /\ hook.error # Null)
    /\ hook.settled.outcome # "none" =>
          IF hook.settled.ok
          THEN /\ hook.success /\ hook.error = Null
               /\ hook.settled.outcome = "resolved"
               /\ hook.config.onSuccess # "absent" => hook.settled.onSuccess = 1
          ELSE /\ ~hook.success /\ hook.error # Null
               /\ hook.settled.outcome = "rejected"
               /\ hook.config.onError # "throws" => hook.settled.thrown = hook.error
               /\ hook.config.onError # "absent" => hook.settled.onError = 1

====
